---------------------------- MODULE Spec2Model ----------------------------
(***************************************************************************)
(* rehearsa: the restore-contract rehearsal engine.                        *)
(*                                                                         *)
(* Several state machines share this module, one per part of the program:  *)
(*   SpecDaemon  the daemon's rehearsal tasks (daemon.rs), the concurrency *)
(*               semaphore and the per-stack lock file (lock.rs), with a   *)
(*               one-shot CLI run racing the daemon for the lock;          *)
(*   SpecSched   the cron scheduler loop (daemon.rs run_scheduler) with    *)
(*               its persisted state file, daemon crash and restart;       *)
(*   SpecRun     one call of test_stack (engine/stack.rs) against the      *)
(*               container runtime, and what its caller (main.rs or        *)
(*               trigger_rehearsal) does with the result;                  *)
(*   SpecHistory the history store (history.rs): persist, the integrity    *)
(*               check and load_latest over the stack's record files.      *)
(*   SpecWait    wait_and_score (engine/stack.rs), the polling loop that   *)
(*               scores one container;                                     *)
(*   SpecPolicy  the policy evaluation of one run (engine/stack.rs);       *)
(*   SpecDrift   compare_to_baseline (baseline.rs) over two runs;          *)
(*   SpecBaseline the pinned baseline and its history (baseline.rs): set,  *)
(*               promote, delete and load;                                 *)
(*   SpecFire    the fire time run_scheduler finds for one watch on one    *)
(*               tick, for hourly to monthly schedules;                    *)
(*   SpecPrepare preflight (engine/preflight.rs) and the image step of     *)
(*               test_stack for the services of one compose file;          *)
(*   SpecNotify  one call of notify() (notify.rs);                         *)
(*   SpecConfig  the concurrency limit: environment, config file,          *)
(*               set_concurrency (daemon.rs);                              *)
(*   SpecWatcher the file-watch loop of run_daemon and the watch registry. *)
(* SpecDaemonLive and SpecDaemonFair are SpecDaemon under fairness.        *)
(* Each specification leaves the variables of the others at rest.          *)
(***************************************************************************)
EXTENDS Integers, Sequences, FiniteSets, TLC

VARIABLES
    \* ---- SpecDaemon
    maxConcurrent,  \* resolve_concurrency(): the semaphore's permits N
    sem,            \* permits available in the shared semaphore
    tasks,          \* spawned rehearsal tasks and the one-shot CLI run
    lockFile,       \* /var/lock/rehearsa/<stack>.lock, per stack
    \* ---- SpecSched
    clock,          \* Utc::now(), in hours
    up,             \* the daemon process is running
    catchUp,        \* the registry's catch_up flag of each scheduled watch
    sched,          \* run_scheduler's position in its loop and its locals
    last_run,       \* run_scheduler's in-memory map stack -> last fire time
    stateFile,      \* /etc/rehearsa/scheduler_state.json
    dispatched,     \* every (stack, fire time) whose rehearsal was spawned
    replayed,       \* those spawned more than once
    runLog,         \* bookkeeping of the current daemon run (see InitSched)
    \* ---- SpecRun
    call,           \* who calls test_stack, with which arguments
    docker,         \* the container runtime: this run's network, containers
    run,            \* test_stack's position and its locals
    history,        \* the stack's persisted RunRecords, oldest first
    outcome,        \* what the caller did: process exit status, notification
    \* ---- SpecHistory
    dir,            \* ~/.rehearsa/history/<stack>/: file name -> JSON text
    wall,           \* Utc::now() at the latest persist
    written,        \* the records persisted, in the order of the calls
    tampered,       \* the files modified from outside after persist
    verdict,        \* validate_stack_integrity's result for the current dir
    latest,         \* load_latest's result for the current dir
    \* ---- SpecWait
    wait,           \* wait_and_score: timeout, elapsed, what was seen, result
    \* ---- SpecPolicy
    pol,            \* the policy evaluation of one run, its inputs and its result
    \* ---- SpecDrift
    cmp,            \* compare_to_baseline: the baseline, the current run, the result
    \* ---- SpecBaseline
    runsDir,        \* ~/.rehearsa/history/<stack>/: file name -> run record
    pinned,         \* ~/.rehearsa/baselines/<stack>.json, if there is one
    baseHist,       \* ~/.rehearsa/baseline-history/<stack>/: file name -> entry
    bwall,          \* Utc::now() at the latest save
    bcall,          \* the latest baseline command, its result, what it found
    loaded,         \* load_baseline's result for the current pinned file
    \* ---- SpecFire
    firing,         \* one watch of one scheduler tick: its inputs and what was done
    \* ---- SpecPrepare
    prep,           \* preflight and the image step of one run: inputs, findings, pulls
    \* ---- SpecNotify
    ntf,            \* one call of notify(): its inputs, what was delivered, where it is
    \* ---- SpecConfig
    conf,           \* the environment, the config file and what the config calls returned
    \* ---- SpecWatcher
    fw              \* the watches file, the last file-system event and the intents it spawned

daemonVars == <<maxConcurrent, sem, tasks, lockFile>>
schedVars == <<clock, up, catchUp, sched, last_run, stateFile, dispatched,
               replayed, runLog>>

runVars == <<call, docker, run, history, outcome>>

histVars == <<dir, wall, written, tampered, verdict, latest>>

waitVars == <<wait>>

policyVars == <<pol>>

driftVars == <<cmp>>

baselineVars == <<runsDir, pinned, baseHist, bwall, bcall, loaded>>

fireVars == <<firing>>

prepareVars == <<prep>>

notifyVars == <<ntf>>

configVars == <<conf>>

watchVars == <<fw>>

vars ==
    <<daemonVars, schedVars, runVars, histVars, waitVars, policyVars,
      driftVars, baselineVars, fireVars, prepareVars, notifyVars,
      configVars, watchVars>>

notDaemon ==
    <<schedVars, runVars, histVars, waitVars, policyVars, driftVars,
      baselineVars, fireVars, prepareVars, notifyVars, configVars,
      watchVars>>
notSched ==
    <<daemonVars, runVars, histVars, waitVars, policyVars, driftVars,
      baselineVars, fireVars, prepareVars, notifyVars, configVars,
      watchVars>>
notRun ==
    <<daemonVars, schedVars, histVars, waitVars, policyVars, driftVars,
      baselineVars, fireVars, prepareVars, notifyVars, configVars,
      watchVars>>
notHist ==
    <<daemonVars, schedVars, runVars, waitVars, policyVars, driftVars,
      baselineVars, fireVars, prepareVars, notifyVars, configVars,
      watchVars>>
notWait ==
    <<daemonVars, schedVars, runVars, histVars, policyVars, driftVars,
      baselineVars, fireVars, prepareVars, notifyVars, configVars,
      watchVars>>
notPolicy ==
    <<daemonVars, schedVars, runVars, histVars, waitVars, driftVars,
      baselineVars, fireVars, prepareVars, notifyVars, configVars,
      watchVars>>
notDrift ==
    <<daemonVars, schedVars, runVars, histVars, waitVars, policyVars,
      baselineVars, fireVars, prepareVars, notifyVars, configVars,
      watchVars>>
notBaseline ==
    <<daemonVars, schedVars, runVars, histVars, waitVars, policyVars,
      driftVars, fireVars, prepareVars, notifyVars, configVars, watchVars>>
notFire ==
    <<daemonVars, schedVars, runVars, histVars, waitVars, policyVars,
      driftVars, baselineVars, prepareVars, notifyVars, configVars,
      watchVars>>
notPrepare ==
    <<daemonVars, schedVars, runVars, histVars, waitVars, policyVars,
      driftVars, baselineVars, fireVars, notifyVars, configVars, watchVars>>
notNotify ==
    <<daemonVars, schedVars, runVars, histVars, waitVars, policyVars,
      driftVars, baselineVars, fireVars, prepareVars, configVars,
      watchVars>>
notConfig ==
    <<daemonVars, schedVars, runVars, histVars, waitVars, policyVars,
      driftVars, baselineVars, fireVars, prepareVars, notifyVars,
      watchVars>>
notWatch ==
    <<daemonVars, schedVars, runVars, histVars, waitVars, policyVars,
      driftVars, baselineVars, fireVars, prepareVars, notifyVars,
      configVars>>

(***************************************************************************)
(* Bounds of the model.                                                    *)
(***************************************************************************)
MaxTasks == 2       \* rehearsal tasks the daemon has spawned and not reaped
MaxPermits == 2     \* largest concurrency limit N tried
MaxNow == 6         \* hours of wall-clock time the scheduler is followed for
MaxRecords == 2     \* records persisted into one stack's history
MaxTimeout == 3     \* largest timeout (seconds) given to wait_and_score
MaxSaves == 2       \* baselines saved for one stack
MaxLimit == 3       \* largest concurrency limit written or given
MaxPaths == 2      \* paths one file-system event carries
MaxHours == 200     \* hours since 2023-01-01T00:00Z the fire time is followed for

(***************************************************************************)
(*                     SpecDaemon: tasks, semaphore, lock                  *)
(***************************************************************************)
Stacks == {"s1"}

DaemonTasks == 1..MaxTasks
CliTask == MaxTasks + 1
Tasks == DaemonTasks \cup {CliTask}

\* process::id() of the caller; a third pid belongs to a holder that died.
DaemonPid == "pid_daemon"
CliPid == "pid_cli"
DeadPid == "pid_dead"
PidOf(t) == IF t = CliTask THEN CliPid ELSE DaemonPid

\* A lock file: the inode (who created it) and the pid line, "none" until
\* the creator's writeln! has run.
NoFile == [exists |-> FALSE, creator |-> 0, pid |-> "none"]
NewFile(t) == [exists |-> TRUE, creator |-> t, pid |-> "none"]
StaleFile == [exists |-> TRUE, creator |-> 0, pid |-> DeadPid]

IdleTask == [pc |-> "idle", stack |-> "-", origin |-> "-", during |-> FALSE,
             res |-> "-"]

\* A call that is past StackLock::acquire and has not yet dropped the lock.
PostLock(t) == tasks[t].pc = "rehearse"

RehearsalInProgress(s) ==
    \E u \in Tasks : tasks[u].stack = s /\ PostLock(u)

\* A liveness test that finds every recorded pid alive.
process_alive_always(pid) == TRUE

\* process_alive: /proc/<pid> exists.  The daemon lives throughout; the CLI
\* process lives while its one-shot run does.
process_alive(pid) ==
    \/ pid = DaemonPid
    \/ pid = CliPid /\ tasks[CliTask].pc # "idle"

\* tokio::spawn of the rehearsal task for an intent on stack s.
SpawnTask(s, origin) ==
    /\ \E t \in DaemonTasks :
        /\ tasks[t].pc = "idle"
        /\ \A u \in DaemonTasks : u < t => tasks[u].pc # "idle"
        /\ tasks' = [tasks EXCEPT ![t] =
               [pc |-> "wait_permit", stack |-> s, origin |-> origin,
                during |-> RehearsalInProgress(s), res |-> "-"]]
    /\ UNCHANGED <<maxConcurrent, sem, lockFile>>
    /\ UNCHANGED notDaemon

\* run_daemon's watch loop: a Modify/Create event on s's compose file.
WatchEvent(s) == SpawnTask(s, "watch")

\* run_scheduler: the dispatch of a due slot of s.
SchedulerSpawn(s) == SpawnTask(s, "sched")

\* trigger_rehearsal up to the call of test_stack: the provider gate either
\* lets the rehearsal start or ends the trigger (verify_provider failed).
AfterGate(t) ==
    {[tasks EXCEPT ![t].pc = "lock_create", ![t].origin = "-"],
     [tasks EXCEPT ![t].pc = "returned", ![t].origin = "-",
                   ![t].res = "provider_failed"]}

\* A permit that is not kept: the task goes on with the permit given back.
AcquirePermitNotHeld(t) ==
    /\ tasks[t].pc = "wait_permit"
    /\ tasks' \in AfterGate(t)
    /\ UNCHANGED <<maxConcurrent, sem, lockFile>>
    /\ UNCHANGED notDaemon

\* let _permit = sem.acquire().await; then trigger_rehearsal(..) is called.
\* From here on the file-watch task and the scheduler task run the same
\* code, and the origin is no longer kept.
AcquirePermit(t) ==
    /\ tasks[t].pc = "wait_permit"
    /\ sem > 0
    /\ sem' = sem - 1
    /\ tasks' \in AfterGate(t)
    /\ UNCHANGED <<maxConcurrent, lockFile>>
    /\ UNCHANGED notDaemon

\* The one-shot CLI: `rehearsa stack test <file>` calls test_stack directly.
CliStart(s) ==
    /\ tasks[CliTask].pc = "idle"
    /\ tasks' = [tasks EXCEPT ![CliTask] =
           [pc |-> "lock_create", stack |-> s, origin |-> "-",
            during |-> RehearsalInProgress(s), res |-> "-"]]
    /\ UNCHANGED <<maxConcurrent, sem, lockFile>>
    /\ UNCHANGED notDaemon

\* StackLock::acquire, first step: OpenOptions.create_new(true).open(path).
LockCreate(t) ==
    /\ tasks[t].pc = "lock_create"
    /\ LET s == tasks[t].stack IN
       IF ~lockFile[s].exists
       THEN /\ lockFile' = [lockFile EXCEPT ![s] = NewFile(t)]
            /\ tasks' = [tasks EXCEPT ![t].pc = "lock_write"]
       ELSE /\ tasks' = [tasks EXCEPT ![t].pc = "lock_read"]
            /\ UNCHANGED lockFile
    /\ UNCHANGED <<maxConcurrent, sem>>
    /\ UNCHANGED notDaemon

\* writeln!(file, "pid: {}", pid) on the handle the create returned: it
\* reaches the path only while the path still names that inode.
LockWrite(t) ==
    /\ tasks[t].pc = "lock_write"
    /\ LET s == tasks[t].stack IN
       lockFile' = IF lockFile[s].exists /\ lockFile[s].creator = t
                   THEN [lockFile EXCEPT ![s].pid = PidOf(t)]
                   ELSE lockFile
    /\ tasks' = [tasks EXCEPT ![t].pc = "rehearse"]
    /\ UNCHANGED <<maxConcurrent, sem>>
    /\ UNCHANGED notDaemon

\* AlreadyExists: read_to_string(path).unwrap_or_default(), parse the pid
\* line, process_alive.
LockRead(t) ==
    /\ tasks[t].pc = "lock_read"
    /\ LET s == tasks[t].stack
           pid == IF lockFile[s].exists THEN lockFile[s].pid ELSE "none"
       IN  IF pid # "none" /\ process_alive(pid)
           THEN tasks' = [tasks EXCEPT ![t].pc = "returned",
                                       ![t].res = "lock_held"]
           ELSE tasks' = [tasks EXCEPT ![t].pc = "lock_remove"]
    /\ UNCHANGED <<maxConcurrent, sem, lockFile>>
    /\ UNCHANGED notDaemon

\* Stale or corrupt lock: let _ = fs::remove_file(&lock_path).
LockRemove(t) ==
    /\ tasks[t].pc = "lock_remove"
    /\ lockFile' = [lockFile EXCEPT ![tasks[t].stack] = NoFile]
    /\ tasks' = [tasks EXCEPT ![t].pc = "lock_recreate"]
    /\ UNCHANGED <<maxConcurrent, sem>>
    /\ UNCHANGED notDaemon

\* ... and retry once: create_new again; a failure is a fatal error.
LockRecreate(t) ==
    /\ tasks[t].pc = "lock_recreate"
    /\ LET s == tasks[t].stack IN
       IF ~lockFile[s].exists
       THEN /\ lockFile' = [lockFile EXCEPT ![s] = NewFile(t)]
            /\ tasks' = [tasks EXCEPT ![t].pc = "lock_write"]
       ELSE /\ tasks' = [tasks EXCEPT ![t].pc = "returned",
                                      ![t].res = "fatal"]
            /\ UNCHANGED lockFile
    /\ UNCHANGED <<maxConcurrent, sem>>
    /\ UNCHANGED notDaemon

\* The rest of test_stack ends, with Ok or Err or by a panic that unwinds,
\* and _lock goes out of scope: Drop for StackLock removes whatever file is
\* at the path.
FinishRun(t) ==
    /\ tasks[t].pc = "rehearse"
    /\ \E r \in {"ok", "fatal", "panic"} :
           tasks' = [tasks EXCEPT ![t].pc = "returned", ![t].res = r]
    /\ lockFile' = [lockFile EXCEPT ![tasks[t].stack] = NoFile]
    /\ UNCHANGED <<maxConcurrent, sem>>
    /\ UNCHANGED notDaemon

\* A task that ends and keeps its permit.
ReleasePermitLeaking(t) ==
    /\ t \in DaemonTasks
    /\ tasks[t].pc = "returned"
    /\ tasks' = [tasks EXCEPT ![t] = IdleTask]
    /\ UNCHANGED <<maxConcurrent, sem, lockFile>>
    /\ UNCHANGED notDaemon

\* trigger_rehearsal handles the result and returns, or the panic unwinds
\* through it; the spawned block ends: _permit is dropped, the task is gone.
ReleasePermit(t) ==
    /\ t \in DaemonTasks
    /\ tasks[t].pc = "returned"
    /\ sem' = sem + 1
    /\ tasks' = [tasks EXCEPT ![t] = IdleTask]
    /\ UNCHANGED <<maxConcurrent, lockFile>>
    /\ UNCHANGED notDaemon

\* main: exit(..) after test_stack returned.
CliExit ==
    /\ tasks[CliTask].pc = "returned"
    /\ tasks' = [tasks EXCEPT ![CliTask] = IdleTask]
    /\ UNCHANGED <<maxConcurrent, sem, lockFile>>
    /\ UNCHANGED notDaemon

DaemonInit ==
    /\ maxConcurrent \in 1..MaxPermits
    /\ sem = maxConcurrent
    /\ tasks = [t \in Tasks |-> IdleTask]
    /\ lockFile \in [Stacks -> {NoFile, StaleFile}]

DaemonAtRest ==
    /\ maxConcurrent = 1
    /\ sem = 1
    /\ tasks = [t \in Tasks |-> IdleTask]
    /\ lockFile = [s \in Stacks |-> NoFile]

NextDaemon ==
    \/ \E s \in Stacks : WatchEvent(s)
    \/ \E s \in Stacks : SchedulerSpawn(s)
    \/ \E s \in Stacks : CliStart(s)
    \/ \E t \in DaemonTasks : AcquirePermit(t)
    \/ \E t \in Tasks : LockCreate(t)
    \/ \E t \in Tasks : LockWrite(t)
    \/ \E t \in Tasks : LockRead(t)
    \/ \E t \in Tasks : LockRemove(t)
    \/ \E t \in Tasks : LockRecreate(t)
    \/ \E t \in Tasks : FinishRun(t)
    \/ \E t \in DaemonTasks : ReleasePermit(t)
    \/ CliExit

(***************************************************************************)
(*                     SpecSched: the cron scheduler                       *)
(***************************************************************************)
\* The scheduled watches of /etc/rehearsa/watches.json, in file order.  A
\* cron expression is kept as its period in hours: "0 */2 * * *" fires at
\* 0:00, 2:00, ..., "0 */3 * * *" at 0:00, 3:00, ...
Registry == <<[stack |-> "a", period |-> 2], [stack |-> "b", period |-> 3]>>
SchedStacks == {Registry[i].stack : i \in 1..Len(Registry)}

Times == 0..MaxNow

\* chrono::Duration::hours(25): how far back schedule.after(..) starts.
Lookback == 25

\* The fire times of a schedule within the modelled hours.
FireTimes(period) == {t \in Times : t % period = 0}

SetMax(S) == CHOOSE x \in S : \A y \in S : y <= x

\* schedule.after(&(now - 25h)).take_while(|t| t <= &now).last(): the set
\* is empty (None) or holds the one most recent fire time.
LastFire(period, now) ==
    LET passed == {t \in FireTimes(period) : t > now - Lookback /\ t <= now}
    IN  IF passed = {} THEN {} ELSE {SetMax(passed)}

EmptyMap == [s \in {} |-> 0]

\* last_run.insert(stack, t)
Insert(map, s, t) ==
    [x \in DOMAIN map \cup {s} |-> IF x = s THEN t ELSE map[x]]

\* The state file: absent or cut short (valid = FALSE), or a whole map.
NoStateFile == [valid |-> FALSE, map |-> EmptyMap]

\* load_scheduler_state: read error or parse error gives the empty map.
load_scheduler_state == IF stateFile.valid THEN stateFile.map ELSE EmptyMap

Sleeping == [pc |-> "sleep", idx |-> 0, now |-> 0, fire |-> 0, after |-> "-"]

\* `continue`, or the end of the for body: the next watch, or back to sleep.
NextWatch ==
    IF sched.idx < Len(Registry)
    THEN [pc |-> "eval", idx |-> sched.idx + 1, now |-> sched.now,
          fire |-> 0, after |-> "-"]
    ELSE Sleeping

\* An hour of wall-clock time passes, whether the daemon runs or not.  One
\* pass of the scheduler loop takes far less: the hour does not turn in it.
Advance ==
    /\ clock < MaxNow
    /\ sched.pc = "sleep"
    /\ clock' = clock + 1
    /\ UNCHANGED <<up, catchUp, sched, last_run, stateFile, dispatched,
                   replayed, runLog>>
    /\ UNCHANGED notSched

\* sleep(30 s) ends: load_registry, now = Utc::now(), start the for loop.
SchedulerTick ==
    /\ up
    /\ sched.pc = "sleep"
    /\ sched' = [pc |-> "eval", idx |-> 1, now |-> clock, fire |-> 0,
                 after |-> "-"]
    /\ UNCHANGED <<clock, up, catchUp, last_run, stateFile, dispatched,
                   replayed, runLog>>
    /\ UNCHANGED notSched

\* The test below with the comparison off by one.
AlreadyFiredStrict(prev, fire) == prev > fire

\* "Have we already run this slot?": prev >= last_fire.
AlreadyFired(prev, fire) == prev >= fire

\* One pass of the for body up to the state write: find last_fire, compare
\* with last_run, and either continue or record the slot.
EvalWatch ==
    /\ up
    /\ sched.pc = "eval"
    /\ LET w == Registry[sched.idx]
           lf == LastFire(w.period, sched.now)
       IN  IF lf = {}
           THEN /\ sched' = NextWatch
                /\ UNCHANGED <<last_run, runLog>>
           ELSE LET fire == SetMax(lf)
                    known == w.stack \in DOMAIN last_run
                IN  IF known /\ AlreadyFired(last_run[w.stack], fire)
                    THEN /\ sched' = NextWatch
                         /\ UNCHANGED <<last_run, runLog>>
                    ELSE /\ last_run' = Insert(last_run, w.stack, fire)
                         /\ sched' = [sched EXCEPT !.pc = "save",
                                !.fire = fire,
                                !.after = IF known /\ ~catchUp[w.stack]
                                          THEN "continue" ELSE "spawn"]
                         /\ runLog' =
                                IF known /\ ~catchUp[w.stack]
                                THEN [runLog EXCEPT !.missedTwo = @ \cup
                                         IF /\ fire <= runLog.since
                                            /\ \E t1 \in FireTimes(w.period) :
                                                  last_run[w.stack] < t1 /\ t1 < fire
                                         THEN {w.stack} ELSE {}]
                                ELSE runLog
    /\ UNCHANGED <<clock, up, catchUp, stateFile, dispatched, replayed>>
    /\ UNCHANGED notSched

AfterSave ==
    IF sched.after = "spawn" THEN [sched EXCEPT !.pc = "spawn"] ELSE NextWatch

\* save_scheduler_state, fs::write: the file is created or truncated ...
\* (The write is taken to succeed; its error branch only logs.)
SaveOpen ==
    /\ up
    /\ sched.pc = "save"
    /\ stateFile' = NoStateFile
    /\ sched' = [sched EXCEPT !.pc = "write"]
    /\ UNCHANGED <<clock, up, catchUp, last_run, dispatched, replayed, runLog>>
    /\ UNCHANGED notSched

\* ... and the serialized map is written into it.
SaveWrite ==
    /\ up
    /\ sched.pc = "write"
    /\ stateFile' = [valid |-> TRUE, map |-> last_run]
    /\ sched' = AfterSave
    /\ UNCHANGED <<clock, up, catchUp, last_run, dispatched, replayed, runLog>>
    /\ UNCHANGED notSched

\* tokio::spawn of the rehearsal task for the slot just recorded.
Dispatch ==
    /\ up
    /\ sched.pc = "spawn"
    /\ LET slot == <<Registry[sched.idx].stack, sched.fire>> IN
       /\ dispatched' = dispatched \cup {slot}
       /\ replayed' = IF slot \in dispatched THEN replayed \cup {slot}
                      ELSE replayed
       /\ runLog' = [runLog EXCEPT
              !.fired = @ \cup {slot},
              !.twice = @ \cup (IF slot \in runLog.fired THEN {slot} ELSE {})]
    /\ sched' = NextWatch
    /\ UNCHANGED <<clock, up, catchUp, last_run, stateFile>>
    /\ UNCHANGED notSched

\* The daemon process dies (kill, power loss): memory is gone, files stay.
Crash ==
    /\ up
    /\ up' = FALSE
    /\ sched' = Sleeping
    /\ last_run' = EmptyMap
    /\ UNCHANGED <<clock, catchUp, stateFile, dispatched, replayed, runLog>>
    /\ UNCHANGED notSched

NewRun(t) == [since |-> t, fired |-> {}, twice |-> {}, missedTwo |-> {}]

\* systemd restarts it: run_scheduler starts with load_scheduler_state().
Restart ==
    /\ ~up
    /\ up' = TRUE
    /\ last_run' = load_scheduler_state
    /\ sched' = Sleeping
    /\ runLog' = NewRun(clock)
    /\ UNCHANGED <<clock, catchUp, stateFile, dispatched, replayed>>
    /\ UNCHANGED notSched

\* The first start: no state file yet.  runLog is bookkeeping for the
\* properties: when this run of the daemon started, the slots it has fired
\* and fired twice, and the stacks for which it started by skipping two or
\* more missed windows (catch_up = false).
SchedInit ==
    /\ clock = 0
    /\ up = TRUE
    /\ catchUp \in [SchedStacks -> BOOLEAN]
    /\ sched = Sleeping
    /\ last_run = EmptyMap
    /\ stateFile = NoStateFile
    /\ dispatched = {}
    /\ replayed = {}
    /\ runLog = NewRun(0)

SchedAtRest ==
    /\ clock = 0
    /\ up = FALSE
    /\ catchUp = [s \in SchedStacks |-> FALSE]
    /\ sched = Sleeping
    /\ last_run = EmptyMap
    /\ stateFile = NoStateFile
    /\ dispatched = {}
    /\ replayed = {}
    /\ runLog = NewRun(0)

(***************************************************************************)
(*              SpecRun: one call of test_stack and its caller             *)
(***************************************************************************)
\* Rust's Option<T>: None is the empty set, Some(x) the singleton {x}.
None == {}
Some(x) == {x}
unwrap(o) == CHOOSE x \in o : TRUE
unwrap_or(o, d) == IF o = {} THEN d ELSE unwrap(o)

\* The Compose files tried: service name -> has an image, depends_on.
Svc(hasImage, deps) == [image |-> hasImage, depends_on |-> deps]

ComposeFiles ==
    {"two_tier", "three_tier", "chain", "no_image", "cyclic", "cyclic_tail",
     "self_loop", "invalid", "ghost_dep", "empty"}

\* parse_compose fails on the file (no services block).
ParseFails(c) == c = "invalid"

Compose(c) ==
    CASE c = "two_tier" ->
           [n \in {"api", "db"} |->
              IF n = "api" THEN Svc(TRUE, <<"db">>) ELSE Svc(TRUE, <<>>)]
      [] c = "three_tier" ->
           [n \in {"api", "db", "web"} |->
              IF n = "api" THEN Svc(TRUE, <<"db">>) ELSE Svc(TRUE, <<>>)]
      [] c = "no_image" ->
           [n \in {"api", "db"} |->
              IF n = "api" THEN Svc(TRUE, <<"db">>) ELSE Svc(FALSE, <<>>)]
      [] c = "cyclic" ->
           [n \in {"api", "db"} |->
              IF n = "api" THEN Svc(TRUE, <<"db">>) ELSE Svc(TRUE, <<"api">>)]
      [] c = "chain" ->
           [n \in {"api", "db", "web"} |->
              IF n = "web" THEN Svc(TRUE, <<"api">>)
              ELSE IF n = "api" THEN Svc(TRUE, <<"db">>)
              ELSE Svc(TRUE, <<>>)]
      [] c = "cyclic_tail" ->
           [n \in {"api", "db", "web"} |->
              IF n = "web" THEN Svc(TRUE, <<"api">>)
              ELSE IF n = "api" THEN Svc(TRUE, <<"db">>)
              ELSE Svc(TRUE, <<"api">>)]
      [] c = "self_loop" ->
           [n \in {"api"} |-> Svc(TRUE, <<"api">>)]
      [] c = "invalid" -> [n \in {} |-> Svc(TRUE, <<>>)]
      \* depends_on names "cache", which the file does not define.
      [] c = "ghost_dep" ->
           [n \in {"api", "db"} |->
              IF n = "api" THEN Svc(TRUE, <<"cache">>) ELSE Svc(TRUE, <<>>)]
      \* `services: {}`: parse_compose returns Ok with no services.
      [] c = "empty" -> [n \in {} |-> Svc(TRUE, <<>>)]

\* test_stack's dep_map: service name -> depends_on, or empty.
DepMap(c) == [n \in DOMAIN Compose(c) |-> Compose(c)[n].depends_on]

\* The orders in which a HashMap may hand out its keys.
KeyOrders(S) ==
    {o \in [1..Cardinality(S) -> S] : \A i, j \in DOMAIN o : o[i] = o[j] => i = j}

Range(seq) == {seq[i] : i \in DOMAIN seq}

\* graph.rs: depth-first visit; st carries visited, temp, result and the
\* error, once one was returned ("?" propagates it through every caller).
SortStart == [visited |-> {}, temp |-> {}, result |-> <<>>, err |-> None]

RECURSIVE visit(_, _, _)
RECURSIVE VisitEach(_, _, _, _)

visit(node, services, st) ==
    IF st.err # None THEN st
    ELSE IF node \in st.visited THEN st
    ELSE IF node \in st.temp THEN [st EXCEPT !.err = Some(node)]
    ELSE LET deps == IF node \in DOMAIN services THEN services[node] ELSE <<>>
             st2 == VisitEach(deps, 1, services,
                              [st EXCEPT !.temp = @ \cup {node}])
         IN  IF st2.err # None THEN st2
             ELSE [st2 EXCEPT !.temp = @ \ {node},
                              !.visited = @ \cup {node},
                              !.result = Append(@, node)]

VisitEach(nodes, i, services, st) ==
    IF i > Len(nodes) \/ st.err # None THEN st
    ELSE VisitEach(nodes, i + 1, services, visit(nodes[i], services, st))

\* A sort that hands the keys back as they come, and detects nothing.
SortByKeys(services, keys) == [SortStart EXCEPT !.result = keys]

Reverse(seq) == [i \in 1..Len(seq) |-> seq[Len(seq) + 1 - i]]

\* A sort that puts every service before its dependencies.
SortDependentsFirst(services, keys) ==
    LET st == VisitEach(keys, 1, services, SortStart)
    IN  [st EXCEPT !.result = Reverse(@)]

topological_sort(services, keys) == VisitEach(keys, 1, services, SortStart)

\* Rust's integer division truncates toward zero.
TruncDiv(a, b) == IF a >= 0 THEN a \div b ELSE -((-a) \div b)

RECURSIVE SumOver(_, _)
SumOver(f, S) ==
    IF S = {} THEN 0
    ELSE LET k == CHOOSE x \in S : TRUE IN f[k] + SumOver(f, S \ {k})

\* stack.rs: confidence is the integer mean of the service scores.
Confidence(service_scores) ==
    SumOver(service_scores, DOMAIN service_scores)
        \div Cardinality(DOMAIN service_scores)

Risk(confidence) ==
    IF confidence >= 90 /\ confidence <= 100 THEN "LOW"
    ELSE IF confidence >= 70 /\ confidence <= 89 THEN "MODERATE"
    ELSE IF confidence >= 40 /\ confidence <= 69 THEN "HIGH"
    ELSE "CRITICAL"

\* wait_and_score: what the container is seen to be -> its score.  A state
\* the poll does not return on ("other") runs into the timeout.
Observed == {"healthy", "unhealthy", "running", "exited", "other"}

ScoreOf(obs) ==
    CASE obs = "healthy" -> 100
      [] obs = "unhealthy" -> 40
      [] obs = "running" -> 85
      [] obs = "exited" -> 0
      [] obs = "other" -> 0

\* policy.rs StackPolicy: every rule is optional.
NoRules ==
    [min_confidence |-> None, min_readiness |-> None,
     block_on_regression |-> None, fail_on_new_service_failure |-> None,
     fail_on_duration_spike |-> None, duration_spike_percent |-> None,
     fail_on_baseline_drift |-> None]

\* The policy files tried.
Policies ==
    {NoRules,
     [NoRules EXCEPT !.min_confidence = Some(90)],
     [NoRules EXCEPT !.min_readiness = Some(80)],
     [NoRules EXCEPT !.block_on_regression = Some(TRUE)],
     [NoRules EXCEPT !.fail_on_new_service_failure = Some(TRUE)],
     [NoRules EXCEPT !.fail_on_duration_spike = Some(TRUE)],
     [NoRules EXCEPT !.fail_on_baseline_drift = Some(TRUE)],
     [NoRules EXCEPT !.fail_on_baseline_drift = Some(FALSE)],
     [NoRules EXCEPT !.min_confidence = Some(90),
                     !.fail_on_baseline_drift = Some(TRUE)]}

\* load_policy: None when the stack has no (readable) policy file.
PolicyFiles == {None} \cup {Some(p) : p \in Policies}

\* baseline.rs StackBaseline, the fields compare_to_baseline reads.
Baselines ==
    {[expected_services |-> {"api", "db"}, expected_confidence |-> 100,
      expected_readiness |-> Some(100), expected_duration |-> 10],
     [expected_services |-> {"api", "db"}, expected_confidence |-> 92,
      expected_readiness |-> Some(100), expected_duration |-> 10]}

BaselineFiles == {None} \cup {Some(b) : b \in Baselines}

\* preflight.rs: the penalties of the findings of a run of the rules.
FindingLists == {<<>>, <<25>>, <<30, 25, 30, 25>>}

\* u32 subtraction without saturation (it can leave the type's range).
plain_sub(a, b) == a - b

\* u32::saturating_sub.
saturating_sub(a, b) == IF b > a THEN 0 ELSE a - b

\* preflight.rs compute_score: 100 less each finding's penalty, not below 0.
RECURSIVE ScoreFrom(_, _, _)
ScoreFrom(score, findings, i) ==
    IF i > Len(findings) THEN score
    ELSE ScoreFrom(saturating_sub(score, findings[i]), findings, i + 1)

compute_score(findings) == ScoreFrom(100, findings, 1)

\* What preflight may score and how long the run may have taken (seconds).
ReadinessScores == {compute_score(f) : f \in FindingLists}
Durations == {10, 16}

\* history.rs RunRecord, without stack and hash; the timestamp is that of
\* this run ("now") or of an earlier one.
RunRecord(duration, confidence, readiness, code, services) ==
    [timestamp |-> "now", duration_seconds |-> duration,
     confidence |-> confidence, readiness |-> Some(readiness),
     risk |-> Risk(confidence), exit_code |-> code, services |-> services]

\* An earlier run of the stack, already in its history.
EarlierRun ==
    [RunRecord(10, 100, 100, 0, [n \in {"api", "db"} |-> 100])
        EXCEPT !.timestamp = "earlier"]

\* history.rs load_latest: the newest record, if any.
load_latest(h) == IF h = <<>> THEN None ELSE Some(h[Len(h)])

\* history.rs 421-427, 435-443: the trend of a delta.
Trend(delta) ==
    IF delta > 0 THEN "UP" ELSE IF delta < 0 THEN "DOWN" ELSE "SAME"

\* history.rs analyze_regression.
analyze_regression(h, confidence, readiness, duration) ==
    IF load_latest(h) = None
    THEN [previous_confidence |-> None, confidence_delta |-> None,
          confidence_trend |-> None, previous_readiness |-> None,
          readiness_delta |-> None, readiness_trend |-> None,
          duration_delta_percent |-> None]
    ELSE LET prev == unwrap(load_latest(h))
             confidence_delta == confidence - prev.confidence
             readiness_delta ==
                 IF prev.readiness = None THEN None
                 ELSE Some(readiness - unwrap(prev.readiness))
         IN  [previous_confidence |-> Some(prev.confidence),
              confidence_delta |-> Some(confidence_delta),
              confidence_trend |-> Some(Trend(confidence_delta)),
              previous_readiness |-> prev.readiness,
              readiness_delta |-> readiness_delta,
              readiness_trend |-> {Trend(d) : d \in readiness_delta},
              duration_delta_percent |->
                 IF prev.duration_seconds > 0
                 THEN Some(TruncDiv((duration - prev.duration_seconds) * 100,
                                    prev.duration_seconds))
                 ELSE None]

\* history.rs calculate_stability: the mean confidence of the last
\* `window` records, 100 when there is none.
calculate_stability(h, window) ==
    LET recent == {i \in DOMAIN h : i > Len(h) - window}
    IN  IF recent = {} THEN 100
        ELSE SumOver([i \in recent |-> h[i].confidence], recent)
                 \div Cardinality(recent)

\* The history with the run's own record already in it.
HistoryAfterPersist(h, record) == Append(h, record)

\* The history analyze_regression and calculate_stability read (stack.rs
\* 281-288): persist(&record) comes after them (stack.rs 494).  `record` is
\* the run's own record as far as it is known then.
HistoryAtScoring(h, record) == h

\* A comparison that takes the two differences the other way round.
compare_swapped(baseline, services, confidence, readiness, duration) ==
    [new_services |-> baseline.expected_services \ DOMAIN services,
     missing_services |-> DOMAIN services \ baseline.expected_services,
     confidence_delta |-> confidence - baseline.expected_confidence,
     readiness_delta |-> None,
     duration_delta_percent |-> None]

\* baseline.rs compare_to_baseline.
compare_to_baseline(baseline, services, confidence, readiness, duration) ==
    [new_services |-> DOMAIN services \ baseline.expected_services,
     missing_services |-> baseline.expected_services \ DOMAIN services,
     confidence_delta |-> confidence - baseline.expected_confidence,
     readiness_delta |->
        IF baseline.expected_readiness = None THEN None
        ELSE Some(readiness - unwrap_or(baseline.expected_readiness, 0)),
     duration_delta_percent |->
        IF baseline.expected_duration > 0
        THEN Some(TruncDiv((duration - baseline.expected_duration) * 100,
                           baseline.expected_duration))
        ELSE None]

\* stack.rs has_drift.
has_drift(drift) ==
    \/ drift.new_services # {}
    \/ drift.missing_services # {}
    \/ drift.confidence_delta # 0
    \/ unwrap_or(drift.readiness_delta, 0) # 0
    \/ unwrap_or(drift.duration_delta_percent, 0) # 0

\* stack.rs baseline drift detection: no baseline, no drift.
BaselineDriftDetected(baselineFile, services, confidence, readiness, duration) ==
    /\ baselineFile # None
    /\ has_drift(compare_to_baseline(unwrap(baselineFile), services,
                                     confidence, readiness, duration))

\* stack.rs policy enforcement, rule by rule.
BelowMinConfidence(policy, confidence) ==
    policy.min_confidence # None /\ confidence < unwrap_or(policy.min_confidence, 0)

BelowMinReadiness(policy, readiness) ==
    policy.min_readiness # None /\ readiness < unwrap_or(policy.min_readiness, 0)

RegressionBlocked(policy, regression) ==
    /\ unwrap_or(policy.block_on_regression, FALSE)
    /\ regression.confidence_delta # None
    /\ unwrap_or(regression.confidence_delta, 0) < 0

ServiceFailed(policy, services) ==
    /\ unwrap_or(policy.fail_on_new_service_failure, FALSE)
    /\ \E n \in DOMAIN services : services[n] = 0

\* A duration-spike rule that fires at its threshold already.
DurationSpikedAtThreshold(policy, regression) ==
    /\ unwrap_or(policy.fail_on_duration_spike, FALSE)
    /\ regression.duration_delta_percent # None
    /\ unwrap_or(regression.duration_delta_percent, 0)
          >= unwrap_or(policy.duration_spike_percent, 50)

DurationSpiked(policy, regression) ==
    /\ unwrap_or(policy.fail_on_duration_spike, FALSE)
    /\ regression.duration_delta_percent # None
    /\ unwrap_or(regression.duration_delta_percent, 0)
          > unwrap_or(policy.duration_spike_percent, 50)

DriftEnforced(policy, drift) ==
    unwrap_or(policy.fail_on_baseline_drift, FALSE) /\ drift

\* The rules other than baseline-drift enforcement.
OtherRuleViolated(policy, confidence, readiness, regression, services) ==
    \/ BelowMinConfidence(policy, confidence)
    \/ BelowMinReadiness(policy, readiness)
    \/ RegressionBlocked(policy, regression)
    \/ ServiceFailed(policy, services)
    \/ DurationSpiked(policy, regression)

PolicyViolation(policyFile, confidence, readiness, regression, services, drift) ==
    /\ policyFile # None
    /\ LET policy == unwrap(policyFile)
       IN  \/ OtherRuleViolated(policy, confidence, readiness, regression,
                                services)
           \/ DriftEnforced(policy, drift)

\* The confidence band of the exit code.
Band(confidence) ==
    IF confidence >= 70 THEN 0 ELSE IF confidence >= 40 THEN 2 ELSE 3

\* The exit logic without its policy branch: the band alone.
ExitCodeBandOnly(policy_violation, drift, policyFile, confidence) ==
    Band(confidence)

\* stack.rs exit logic: the exit_code of the RunRecord.
ExitCode(policy_violation, drift, policyFile, confidence) ==
    IF policy_violation THEN 4
    ELSE IF drift /\ policyFile # None
              /\ unwrap_or(unwrap(policyFile).fail_on_baseline_drift,
                           FALSE)
         THEN 5
    ELSE Band(confidence)

\* main.rs: the exit status of `stack test` after Ok(summary).
CliStatus(summary) ==
    IF summary.policy_violated THEN 4
    ELSE IF summary.baseline_drift THEN 5
    ELSE IF summary.confidence < 40 THEN 3
    ELSE IF summary.confidence < 70 THEN 2
    ELSE 0

\* daemon.rs trigger_rehearsal: the event notified after Ok(summary).
DaemonEvent(summary) ==
    IF summary.policy_violated THEN "PolicyViolation"
    ELSE IF summary.baseline_drift THEN "BaselineDrift"
    ELSE "RehearsalRecovered"

PullPolicies == {"Always", "IfMissing", "Never"}

\* Whether another live process holds the stack's lock when the call starts.
LockStates == {"free", "held"}

\* main.rs: `stack test` passes the command line's pull policy and
\* --inject-failure.
\* With --strict-integrity the stack's history is validated first, and is
\* found intact ("ok") or not ("violation"); "off" is a call without it.
CliCalls ==
    [caller : {"cli"}, compose : ComposeFiles, pull_policy : PullPolicies,
     inject_failure : {None, Some("api")}, lock : LockStates,
     integrity : {"off"}]
    \cup
    [caller : {"cli"}, compose : ComposeFiles, pull_policy : {"IfMissing"},
     inject_failure : {None}, lock : LockStates,
     integrity : {"ok", "violation"}]

\* daemon.rs trigger_rehearsal: test_stack(path, 120, false, None, false,
\* PullPolicy::IfMissing).
DaemonCalls ==
    [caller : {"daemon"}, compose : ComposeFiles, pull_policy : {"IfMissing"},
     inject_failure : {None}, lock : LockStates, integrity : {"off"}]

NoScores == [n \in {} |-> 0]

\* test_stack's locals when it is entered.
Called ==
    [pc |-> "start", locked |-> FALSE, readiness |-> 0, order |-> <<>>,
     i |-> 0, created_containers |-> <<>>, service_scores |-> NoScores,
     healthy |-> {}, error |-> None, duration |-> 0, policyFile |-> None,
     baselineFile |-> None, summary |-> None, regression |-> None,
     stability |-> None]

\* What the caller has done so far; `permit` is the semaphore permit that
\* the daemon's task holds around trigger_rehearsal.
NoOutcome == [exit |-> None, note |-> None, permit |-> FALSE]

NoDocker == [network |-> FALSE, containers |-> {}]

\* `execution` ends with Err(e): what follows is the tear-down.
Fail(e) == [run EXCEPT !.pc = "teardown", !.error = Some(e)]

\* stack.rs 75-139: the integrity gate of a strict run; then the lock is
\* taken (or the call fails on a held lock), the Compose file is parsed (a
\* parse error returns, and drops the lock), preflight scores the host's
\* readiness.
Begin ==
    /\ run.pc = "start"
    /\ IF call.integrity = "violation"
       THEN run' = [run EXCEPT !.pc = "failed",
                               !.error = Some("Integrity violation detected")]
       ELSE IF call.lock = "held"
       THEN run' = [run EXCEPT !.pc = "failed",
                               !.error = Some("already being rehearsed")]
       ELSE IF ParseFails(call.compose)
       THEN run' = [run EXCEPT !.pc = "failed",
                               !.error = Some("No services block found")]
       ELSE \E r \in ReadinessScores :
               run' = [run EXCEPT !.pc = "sort", !.locked = TRUE,
                                  !.readiness = r]
    /\ UNCHANGED <<call, docker, history, outcome>>
    /\ UNCHANGED notRun

\* graph.rs visit: the error names the node that was entered again.
CycleError(node) ==
    CASE node = "api" -> "Circular dependency detected at api"
      [] node = "db" -> "Circular dependency detected at db"
      [] node = "web" -> "Circular dependency detected at web"

\* stack.rs 143-153: dep_map and its topological order.
TopoSort ==
    /\ run.pc = "sort"
    /\ \E keys \in KeyOrders(DOMAIN Compose(call.compose)) :
          LET st == topological_sort(DepMap(call.compose), keys)
          IN  run' = IF st.err # None
                     THEN Fail(CycleError(unwrap(st.err)))
                     ELSE [run EXCEPT !.pc = "network", !.order = st.result]
    /\ UNCHANGED <<call, docker, history, outcome>>
    /\ UNCHANGED notRun

\* stack.rs 155-160: the run's bridge network, or the runtime's error.
CreateNetwork ==
    /\ run.pc = "network"
    /\ \/ /\ docker' = [docker EXCEPT !.network = TRUE]
          /\ run' = [run EXCEPT !.i = 1,
                       !.pc = IF run.order = <<>> THEN "teardown" ELSE "image"]
       \/ /\ docker' = docker
          /\ run' = Fail("create_network")
    /\ UNCHANGED <<call, history, outcome>>
    /\ UNCHANGED notRun

\* stack.rs 171-186: is the image there to create the container from?
ImageReady(pull_policy, present, pulled) ==
    CASE pull_policy = "Always" -> pulled
      [] pull_policy = "IfMissing" -> present \/ pulled
      [] pull_policy = "Never" -> present

\* stack.rs 164-186: the next service of the order, its image, the pull.
ResolveImage ==
    /\ run.pc = "image"
    /\ LET name == run.order[run.i]
           services == Compose(call.compose)
       IN  IF name \notin DOMAIN services
           THEN run' = Fail("missing service")
           ELSE IF ~services[name].image
           THEN run' = Fail("no image")
           ELSE \E present \in BOOLEAN, pulled \in BOOLEAN :
                   run' = IF ImageReady(call.pull_policy, present, pulled)
                          THEN [run EXCEPT !.pc = "create"]
                          ELSE Fail("image")
    /\ UNCHANGED <<call, docker, history, outcome>>
    /\ UNCHANGED notRun

\* stack.rs 188-226: create_container, or the runtime's error.
CreateContainer ==
    /\ run.pc = "create"
    /\ \/ /\ docker' = [docker EXCEPT
                          !.containers = @ \cup {run.order[run.i]}]
          /\ run' = [run EXCEPT !.pc = "start_container"]
       \/ /\ docker' = docker
          /\ run' = Fail("create_container")
    /\ UNCHANGED <<call, history, outcome>>
    /\ UNCHANGED notRun

\* stack.rs 228-233: start_container; only a started container is pushed
\* to created_containers.
StartContainer ==
    /\ run.pc = "start_container"
    /\ \/ run' = [run EXCEPT !.pc = "wait",
                     !.created_containers = Append(@, run.order[run.i])]
       \/ run' = Fail("start_container")
    /\ UNCHANGED <<call, docker, history, outcome>>
    /\ UNCHANGED notRun

\* A fault injection that fails every service of the stack, not the one
\* it names.
WaitAndScoreFailingAll ==
    /\ run.pc = "wait"
    /\ LET name == run.order[run.i]
       IN  \/ run' = Fail("inspect_container")
           \/ \E obs \in Observed :
                 LET score == IF call.inject_failure # None
                              THEN 0 ELSE ScoreOf(obs)
                 IN  run' = [run EXCEPT
                        !.service_scores = Insert(@, name, score),
                        !.healthy = IF obs = "healthy"
                                    THEN @ \cup {name} ELSE @,
                        !.i = @ + 1,
                        !.pc = IF run.i = Len(run.order)
                               THEN "teardown" ELSE "image"]
    /\ UNCHANGED <<call, docker, history, outcome>>
    /\ UNCHANGED notRun

\* stack.rs 235-244: wait_and_score (or inspect_container's error), the
\* injected failure, the score's entry in service_scores; `healthy` keeps
\* the services that wait_and_score saw running and healthy.
WaitAndScore ==
    /\ run.pc = "wait"
    /\ LET name == run.order[run.i]
       IN  \/ run' = Fail("inspect_container")
           \/ \E obs \in Observed :
                 LET score == IF call.inject_failure = Some(name)
                              THEN 0 ELSE ScoreOf(obs)
                 IN  run' = [run EXCEPT
                        !.service_scores = Insert(@, name, score),
                        !.healthy = IF obs = "healthy"
                                    THEN @ \cup {name} ELSE @,
                        !.i = @ + 1,
                        !.pc = IF run.i = Len(run.order)
                               THEN "teardown" ELSE "image"]
    /\ UNCHANGED <<call, docker, history, outcome>>
    /\ UNCHANGED notRun

\* A tear-down that leaves a record of the failed run behind.
TearDownPersisting ==
    /\ run.pc = "teardown"
    /\ docker' = [network |-> FALSE,
                  containers |-> docker.containers
                                    \ Range(run.created_containers)]
    /\ run' = IF run.error # None
              THEN [run EXCEPT !.pc = "failed", !.locked = FALSE]
              ELSE [run EXCEPT !.pc = "score"]
    /\ history' = IF run.error # None
                  THEN Append(history,
                              RunRecord(10, 0, run.readiness, 1,
                                        run.service_scores))
                  ELSE history
    /\ UNCHANGED <<call, outcome>>
    /\ UNCHANGED notRun

\* stack.rs 250-264: the containers of created_containers are removed, then
\* the network; an error of `execution` is returned after that, and the
\* lock is dropped with it.
TearDown ==
    /\ run.pc = "teardown"
    /\ docker' = [network |-> FALSE,
                  containers |-> docker.containers
                                    \ Range(run.created_containers)]
    /\ run' = IF run.error # None
              THEN [run EXCEPT !.pc = "failed", !.locked = FALSE]
              ELSE [run EXCEPT !.pc = "score"]
    /\ UNCHANGED <<call, history, outcome>>
    /\ UNCHANGED notRun

\* A mean that is taken to be zero over no scores, and never panics.
NeverDividesByZero(service_scores) == FALSE

\* stack.rs 269-270: total / service_scores.len() panics ("attempt to
\* divide by zero") when no service was scored.
DividesByZero(service_scores) == DOMAIN service_scores = {}

\* stack.rs 269-496: confidence (or the panic of the division, which
\* unwinds through the lock's Drop), regression against the latest record,
\* baseline drift, policy, exit code; the record is persisted and the
\* summary returned.  The baseline and policy files and the elapsed time
\* are read here.  persist, whose result the code discards, is taken to
\* succeed.
Aggregate ==
    /\ run.pc = "score"
    /\ \E duration \in Durations, policyFile \in PolicyFiles,
          baselineFile \in BaselineFiles :
          LET services == run.service_scores
              confidence == Confidence(services)
              read == HistoryAtScoring(history,
                          RunRecord(duration, confidence, run.readiness, 0,
                                    services))
              regression == analyze_regression(read, confidence,
                                               run.readiness, duration)
              drift == BaselineDriftDetected(baselineFile, services,
                           confidence, run.readiness, duration)
              policy_violation ==
                  PolicyViolation(policyFile, confidence, run.readiness,
                                  regression, services, drift)
              exit_code == ExitCode(policy_violation, drift, policyFile,
                                    confidence)
              summary == [readiness |-> run.readiness,
                          confidence |-> confidence,
                          duration |-> duration,
                          risk |-> Risk(confidence),
                          service_scores |-> services,
                          policy_violated |-> policy_violation,
                          baseline_drift |-> drift]
          IN  IF DividesByZero(services)
              THEN /\ history' = history
                   /\ run' = [run EXCEPT !.pc = "panicked", !.locked = FALSE]
              ELSE
              /\ history' = Append(history,
                                RunRecord(duration, confidence, run.readiness,
                                          exit_code, services))
              /\ run' = [run EXCEPT !.pc = "returned", !.locked = FALSE,
                                    !.duration = duration,
                                    !.policyFile = policyFile,
                                    !.baselineFile = baselineFile,
                                    !.summary = Some(summary),
                                    !.regression = Some(regression),
                                    !.stability =
                                        Some(calculate_stability(read, 5))]
    /\ UNCHANGED <<call, docker, outcome>>
    /\ UNCHANGED notRun

\* main.rs 392-414: the exit status of `rehearsa stack test`; a panic of
\* test_stack unwinds through main, and the process ends with status 101.
CliHandle ==
    /\ call.caller = "cli"
    /\ run.pc \in {"returned", "failed", "panicked"}
    /\ outcome' = [outcome EXCEPT
                     !.exit = IF run.pc = "failed" THEN Some(1)
                              ELSE IF run.pc = "panicked" THEN Some(101)
                              ELSE Some(CliStatus(unwrap(run.summary)))]
    /\ run' = [run EXCEPT !.pc = "done"]
    /\ UNCHANGED <<call, docker, history>>
    /\ UNCHANGED notRun

\* msg.contains("already being rehearsed"): of the messages of the model,
\* the lock's is the one with the phrase.
MentionsLockHeld(msg) == msg = "already being rehearsed"

\* A handler that reports every error, the held lock too.
DaemonHandleReportingAll ==
    /\ call.caller = "daemon"
    /\ run.pc \in {"returned", "failed", "panicked"}
    /\ outcome' = [outcome EXCEPT
                     !.note =
                        IF run.pc = "panicked" THEN None
                        ELSE IF run.pc = "returned"
                        THEN Some(DaemonEvent(unwrap(run.summary)))
                        ELSE Some("RehearsalFatalError"),
                     !.permit = FALSE]
    /\ run' = [run EXCEPT !.pc = "done"]
    /\ UNCHANGED <<call, docker, history>>
    /\ UNCHANGED notRun

\* daemon.rs 681-716: the notification of trigger_rehearsal; a held lock is
\* logged as a skip and notifies nothing.  The task ends with
\* trigger_rehearsal, and its permit is dropped (daemon.rs 457-465, 622-634);
\* a panic of test_stack ends the spawned task, drops the permit and
\* notifies nothing.
DaemonHandle ==
    /\ call.caller = "daemon"
    /\ run.pc \in {"returned", "failed", "panicked"}
    /\ outcome' = [outcome EXCEPT
                     !.note =
                        IF run.pc = "panicked" THEN None
                        ELSE IF run.pc = "returned"
                        THEN Some(DaemonEvent(unwrap(run.summary)))
                        ELSE IF MentionsLockHeld(unwrap(run.error))
                        THEN None
                        ELSE Some("RehearsalFatalError"),
                     !.permit = FALSE]
    /\ run' = [run EXCEPT !.pc = "done"]
    /\ UNCHANGED <<call, docker, history>>
    /\ UNCHANGED notRun

RunInit ==
    /\ call \in CliCalls \cup DaemonCalls
    /\ docker = NoDocker
    /\ run = Called
    /\ history \in {<<>>, <<EarlierRun>>}
    /\ outcome = [NoOutcome EXCEPT !.permit = (call.caller = "daemon")]

RunAtRest ==
    /\ call = [caller |-> "cli", compose |-> "two_tier",
               pull_policy |-> "IfMissing", inject_failure |-> None,
               lock |-> "free", integrity |-> "off"]
    /\ docker = NoDocker
    /\ run = Called
    /\ history = <<>>
    /\ outcome = NoOutcome

(***************************************************************************)
(*                    SpecHistory: the history store                       *)
(***************************************************************************)
\* Utc::now(): the second of the minute and the nanoseconds within it (the
\* date, hour and minute are the same throughout).
Seconds == {9, 10}
Nanos == {0, 7, 5000, 5000000, 500000000, 500000001}
Instants == [sec : Seconds, nanos : Nanos]

Before(a, b) == a.sec < b.sec \/ (a.sec = b.sec /\ a.nanos < b.nanos)

\* Text is a sequence of character codes: '+' 43, '-' 45, '.' 46, '0' 48,
\* ':' 58.
RECURSIVE Pow10(_)
Pow10(k) == IF k = 0 THEN 1 ELSE 10 * Pow10(k - 1)

\* n in decimal, zero-padded to `width` digits.
Digits(n, width) ==
    [i \in 1..width |-> 48 + ((n \div Pow10(width - i)) % 10)]

\* The fraction with its leading zeros dropped.
FractionUnpadded(nanos) ==
    IF nanos = 0 THEN <<>>
    ELSE LET width == CHOOSE w \in 1..9 :
                          nanos < Pow10(w) /\ nanos >= Pow10(w - 1)
         IN  <<46>> \o Digits(nanos, width)

\* to_rfc3339 prints the fraction of a second with no, 3, 6 or 9 digits,
\* the fewest that lose nothing.
Fraction(nanos) ==
    IF nanos = 0 THEN <<>>
    ELSE IF nanos % 1000000 = 0 THEN <<46>> \o Digits(nanos \div 1000000, 3)
    ELSE IF nanos % 1000 = 0 THEN <<46>> \o Digits(nanos \div 1000, 6)
    ELSE <<46>> \o Digits(nanos, 9)

\* history.rs now_timestamp: Utc::now().to_rfc3339(), from the minute on:
\* "00:SS[.fraction]+00:00".
now_timestamp(t) ==
    <<48, 48, 58>> \o Digits(t.sec, 2) \o Fraction(t.nanos)
        \o <<43, 48, 48, 58, 48, 48>>

\* persist's file name: the timestamp with ':' replaced by '-', ".json".
FileName(timestamp) ==
    [i \in 1..Len(timestamp) |->
        IF timestamp[i] = 58 THEN 45 ELSE timestamp[i]]
        \o <<46, 106, 115, 111, 110>>

\* The order of entries.sort(): byte-wise, a proper prefix comes first.
LexLess(a, b) ==
    \/ Len(a) < Len(b) /\ \A i \in 1..Len(a) : a[i] = b[i]
    \/ \E i \in 1..Len(a) :
          /\ i <= Len(b)
          /\ a[i] < b[i]
          /\ \A j \in 1..(i - 1) : a[j] = b[j]

\* The last of the sorted entries.
LastEntry(names) == CHOOSE n \in names : \A m \in names \ {n} : LexLess(m, n)

\* A HashMap<String, u32> in memory is the sequence of its (key, value)
\* pairs in the order its iterator yields them.  That order depends on the
\* map's RandomState, which every newly built map draws afresh.
HashMapOrders(f) ==
    {[i \in 1..Cardinality(DOMAIN f) |-> <<o[i], f[o[i]]>>] :
        o \in KeyOrders(DOMAIN f)}

AsMap(pairs) ==
    [k \in {p[1] : p \in Range(pairs)} |->
        (CHOOSE p \in Range(pairs) : p[1] = k)[2]]

\* The service scores of the runs persisted.
ScoreMaps ==
    {[n \in {"api"} |-> 100],
     [n \in {"api", "db"} |-> IF n = "api" THEN 100 ELSE 85]}

\* history.rs RunRecord as the store handles it: the timestamp, one of the
\* scalar fields (confidence; the others are carried alike), the services
\* map and the hash.
StoredRecord(timestamp, services) ==
    [timestamp |-> timestamp, confidence |-> Confidence(AsMap(services)),
     services |-> services, hash |-> None]

\* serde_json::to_string / to_string_pretty: the fields in declaration
\* order, the services in the map's iteration order; pretty adds white
\* space only.
to_string(record) ==
    [pretty |-> FALSE, timestamp |-> record.timestamp,
     confidence |-> record.confidence, services |-> record.services,
     hash |-> record.hash]

to_string_pretty(record) == [to_string(record) EXCEPT !.pretty = TRUE]

\* serde_json::from_str::<RunRecord>: white space is skipped, the services
\* are inserted into a new HashMap, which may iterate in any order.
from_str(json) ==
    {[timestamp |-> json.timestamp, confidence |-> json.confidence,
      services |-> s, hash |-> json.hash] :
        s \in HashMapOrders(AsMap(json.services))}

\* SHA-256 in hex: taken to be free of collisions, so a digest stands for
\* the bytes it was computed from.
Sha256(bytes) == <<"sha256", bytes>>

\* history.rs compute_hash: the compact JSON of the record with hash = None.
compute_hash(record) == Sha256(to_string([record EXCEPT !.hash = None]))

\* history.rs persist: the file written for `record`.
PersistedText(record) ==
    to_string_pretty([record EXCEPT !.hash = Some(compute_hash(record))])

NoDir == [n \in {} |-> 0]

\* history.rs validate_stack_integrity, given what each file parsed to: the
\* first entry in sorted order whose stored hash is not the computed one.
Mismatches(parsed) ==
    {n \in DOMAIN parsed :
        /\ parsed[n].hash # None
        /\ compute_hash(parsed[n]) # unwrap(parsed[n].hash)}

FirstEntry(names) == CHOOSE n \in names : \A m \in names \ {n} : LexLess(n, m)

validate_stack_integrity(parsed) ==
    IF Mismatches(parsed) = {}
    THEN [ok |-> TRUE, file |-> <<>>]
    ELSE [ok |-> FALSE, file |-> FirstEntry(Mismatches(parsed))]

\* history.rs persist, called with a record stamped now_timestamp() and
\* holding some service scores.  fs::write creates or replaces the file.
Persist ==
    /\ Len(written) < MaxRecords
    /\ \E t \in Instants, f \in ScoreMaps :
          /\ Before(wall, t)
          /\ \E services \in HashMapOrders(f) :
                LET record == StoredRecord(now_timestamp(t), services)
                IN  /\ dir' = Insert(dir, FileName(record.timestamp),
                                     PersistedText(record))
                    /\ written' = Append(written, record)
          /\ wall' = t
    /\ tampered' = tampered
    /\ verdict' = None
    /\ latest' = None
    /\ UNCHANGED notHist

\* Someone edits a record file after persist: the confidence is changed
\* and the hash is either left as it was or removed with it.
Tamper ==
    /\ \E n \in DOMAIN dir \ tampered, dropHash \in BOOLEAN :
          /\ dir' = [dir EXCEPT ![n] =
                        [@ EXCEPT !.confidence = 0,
                                  !.hash = IF dropHash THEN None ELSE @]]
          /\ tampered' = tampered \cup {n}
    /\ verdict' = None
    /\ latest' = None
    /\ UNCHANGED <<wall, written>>
    /\ UNCHANGED notHist

\* history.rs validate_stack_integrity on the directory as it is.
Validate ==
    /\ verdict = None
    /\ \E parsed \in [DOMAIN dir -> UNION {from_str(dir[n]) : n \in DOMAIN dir}] :
          /\ \A n \in DOMAIN dir : parsed[n] \in from_str(dir[n])
          /\ verdict' = Some(validate_stack_integrity(parsed))
    /\ UNCHANGED <<dir, wall, written, tampered, latest>>
    /\ UNCHANGED notHist

\* history.rs load_latest on the directory as it is: None without entries,
\* else the last of the sorted entries, parsed.
LoadLatest ==
    /\ latest = None
    /\ IF DOMAIN dir = {}
       THEN latest' = Some(None)
       ELSE \E record \in from_str(dir[LastEntry(DOMAIN dir)]) :
               latest' = Some(Some(record))
    /\ UNCHANGED <<dir, wall, written, tampered, verdict>>
    /\ UNCHANGED notHist

HistInit ==
    /\ dir = NoDir
    /\ wall = [sec |-> 0, nanos |-> 0]
    /\ written = <<>>
    /\ tampered = {}
    /\ verdict = None
    /\ latest = None

HistAtRest == HistInit

(***************************************************************************)
(*            SpecWait: wait_and_score, the polling of a container         *)
(***************************************************************************)
\* What one inspect_container may show: state.status, and for a running
\* container the health status; "none" is an inspect without a state.
Inspections ==
    {"running_healthy", "running_unhealthy", "running_starting",
     "running_no_health", "exited", "dead", "created", "none"}

\* stack.rs 558-577: the arms of the match that return, and their scores;
\* every other inspection falls through to the sleep.
Returns(inspection) ==
    inspection \in {"running_healthy", "running_unhealthy",
                    "running_no_health", "exited"}

ArmScore(inspection) ==
    CASE inspection = "running_healthy" -> 100
      [] inspection = "running_unhealthy" -> 40
      [] inspection = "running_no_health" -> 85
      [] inspection = "exited" -> 0

Ok(score) == [ok |-> TRUE, score |-> score]
InspectError == [ok |-> FALSE, score |-> 0]

\* One pass of the loop: inspect (or the runtime's error, which "?"
\* returns), the match, the sleep of one second.
Poll ==
    /\ wait.result = None
    /\ wait.elapsed < wait.timeout
    /\ \/ wait' = [wait EXCEPT !.result = Some(InspectError)]
       \/ \E inspection \in Inspections :
             wait' = IF Returns(inspection)
                     THEN [wait EXCEPT !.seen = Append(@, inspection),
                                       !.result = Some(Ok(ArmScore(inspection)))]
                     ELSE [wait EXCEPT !.seen = Append(@, inspection),
                                       !.elapsed = @ + 1]
    /\ UNCHANGED notWait

\* The loop's condition fails: Ok(0).
Expire ==
    /\ wait.result = None
    /\ wait.elapsed >= wait.timeout
    /\ wait' = [wait EXCEPT !.result = Some(Ok(0))]
    /\ UNCHANGED notWait

Waiting(timeout) ==
    [timeout |-> timeout, elapsed |-> 0, seen |-> <<>>, result |-> None]

WaitInit == wait \in {Waiting(timeout) : timeout \in 0..MaxTimeout}

WaitAtRest == wait = Waiting(0)

(***************************************************************************)
(*            SpecPolicy: the policy evaluation of test_stack              *)
(***************************************************************************)
\* The policy files tried for the evaluation alone: every rule present or
\* absent, by itself and together with the others.
PolicyCombos ==
    [min_confidence : {None, Some(90)},
     min_readiness : {None, Some(80)},
     block_on_regression : {None, Some(TRUE), Some(FALSE)},
     fail_on_new_service_failure : {None, Some(TRUE)},
     fail_on_duration_spike : {None, Some(TRUE)},
     duration_spike_percent : {None, Some(60)},
     fail_on_baseline_drift : {None, Some(TRUE)}]

\* The history the run finds: none, or a latest record with a duration,
\* with the duration 0, with a lower confidence.
PreviousRuns ==
    {<<>>, <<EarlierRun>>,
     <<[EarlierRun EXCEPT !.duration_seconds = 0]>>,
     <<[EarlierRun EXCEPT !.confidence = 50]>>}

\* The scores of the run.
RunScores ==
    {[n \in {"api", "db"} |-> 100],
     [n \in {"api", "db"} |-> IF n = "api" THEN 0 ELSE 100],
     [n \in {"api", "db"} |-> 85]}

\* stack.rs 280-285, 353-419: the regression against the latest record and
\* the policy's rules, for the run's confidence, readiness, duration,
\* scores and detected drift.
EvaluatePolicy ==
    /\ pol.policy_violation = None
    /\ LET confidence == Confidence(pol.service_scores)
           regression == analyze_regression(pol.history, confidence,
                                            pol.readiness, pol.duration)
       IN  pol' = [pol EXCEPT !.policy_violation =
                      Some(PolicyViolation(pol.policyFile, confidence,
                                           pol.readiness, regression,
                                           pol.service_scores, pol.drift))]
    /\ UNCHANGED notPolicy

PolicyInputs ==
    [policyFile : {None} \cup {Some(p) : p \in PolicyCombos},
     history : PreviousRuns, service_scores : RunScores,
     readiness : {75, 100}, duration : {10, 15, 16, 17},
     drift : BOOLEAN, policy_violation : {None}]

PolicyInit == pol \in PolicyInputs

PolicyAtRest ==
    pol = [policyFile |-> None, history |-> <<>>,
           service_scores |-> [n \in {"api", "db"} |-> 100],
           readiness |-> 100, duration |-> 10, drift |-> FALSE,
           policy_violation |-> None]

(***************************************************************************)
(*               SpecDrift: compare_to_baseline (baseline.rs)              *)
(***************************************************************************)
ServiceNames == {"api", "db", "web"}

\* The baselines and the current runs compared: every set of expected
\* services against every set of current ones.
DriftInputs ==
    [baseline : [expected_services : SUBSET ServiceNames,
                 expected_confidence : {92, 100},
                 expected_readiness : {Some(100)},
                 expected_duration : {10}],
     services : UNION {[keys -> {100}] : keys \in SUBSET ServiceNames},
     result : {None}]

\* The call, as test_stack makes it for a pinned baseline.
CompareToBaseline ==
    /\ cmp.result = None
    /\ cmp' = [cmp EXCEPT !.result =
                  Some(compare_to_baseline(cmp.baseline, cmp.services,
                                           100, 100, 10))]
    /\ UNCHANGED notDrift

DriftInit == cmp \in DriftInputs

DriftAtRest ==
    cmp = [baseline |-> [expected_services |-> {}, expected_confidence |-> 100,
                         expected_readiness |-> Some(100),
                         expected_duration |-> 10],
           services |-> NoScores, result |-> None]

(***************************************************************************)
(*        SpecBaseline: the pinned baseline and its history log            *)
(***************************************************************************)
\* str::replace(':', "-")
ReplaceColons(text) ==
    [i \in 1..Len(text) |-> IF text[i] = 58 THEN 45 ELSE text[i]]

\* str::contains
Contains(text, sub) ==
    \E i \in 0..(Len(text) - Len(sub)) :
       SubSeq(text, i + 1, i + Len(sub)) = sub

\* A run record of the stack's history, as promote_baseline parses it.
RunAt(t, readiness, services) ==
    [timestamp |-> now_timestamp(t), duration_seconds |-> 10,
     confidence |-> Confidence(services), readiness |-> readiness,
     services |-> services]

FirstRun == RunAt([sec |-> 9, nanos |-> 0], Some(100), [n \in {"api"} |-> 100])
SecondRun ==
    RunAt([sec |-> 9, nanos |-> 7], None,
          [n \in {"api", "db"} |-> IF n = "api" THEN 100 ELSE 85])

\* The history directory of a set of records.
DirOf(records) ==
    [n \in {FileName(r.timestamp) : r \in records} |->
        CHOOSE r \in records : FileName(r.timestamp) = n]

RunDirs == {DirOf({}), DirOf({FirstRun}), DirOf({FirstRun, SecondRun})}

\* The timestamp arguments of `baseline promote`: none, a whole timestamp,
\* "09.0" (part of one), "00:00" (part of every one), "00:11" (of none).
PromoteArgs ==
    {None, Some(FirstRun.timestamp), Some(<<48, 57, 46, 48>>),
     Some(<<48, 48, 58, 48, 48>>), Some(<<48, 48, 58, 49, 49>>)}

\* The instants at which baselines are saved.
SaveInstants == {t \in Instants : t.sec = 10 /\ t.nanos \in {0, 7, 5000}}

\* A choice of target that takes the oldest entry for the latest.
PromoteTargetOldest(names, timestamp) ==
    IF timestamp = None THEN Some(FirstEntry(names))
    ELSE LET matched ==
                {n \in names : Contains(n, ReplaceColons(unwrap(timestamp)))}
         IN  IF matched = {} THEN None ELSE Some(FirstEntry(matched))

\* promote_baseline's target: the last of the sorted entries, or the first
\* of them whose file name contains the argument; None when none does.
PromoteTarget(names, timestamp) ==
    IF timestamp = None THEN Some(LastEntry(names))
    ELSE LET matched ==
                {n \in names : Contains(n, ReplaceColons(unwrap(timestamp)))}
         IN  IF matched = {} THEN None ELSE Some(FirstEntry(matched))

\* The StackBaseline built from a run record; the keys of the record's
\* HashMap are collected in the order `keys` in which it hands them out.
BaselineOf(record, keys, now) ==
    [expected_services |-> keys,
     expected_confidence |-> record.confidence,
     expected_readiness |-> record.readiness,
     expected_duration |-> record.duration_seconds,
     service_scores |-> record.services,
     pinned_at |-> Some(record.timestamp),
     promoted_at |-> Some(now_timestamp(now))]

RequiredKeys ==
    {"expected_services", "expected_confidence", "expected_readiness",
     "expected_duration", "service_scores"}

\* serde_json::to_string_pretty(baseline): pinned_at and promoted_at are
\* left out when None (skip_serializing_if), expected_readiness is kept
\* (null when None).
BaselineJson(b) ==
    [k \in RequiredKeys
           \cup (IF b.pinned_at = None THEN {} ELSE {"pinned_at"})
           \cup (IF b.promoted_at = None THEN {} ELSE {"promoted_at"}) |->
        CASE k = "pinned_at" -> unwrap(b.pinned_at)
          [] k = "promoted_at" -> unwrap(b.promoted_at)
          [] OTHER -> b[k]]

\* serde_json::from_str::<StackBaseline>: an Option field that is missing
\* is None.
ParseBaseline(json) ==
    [expected_services |-> json["expected_services"],
     expected_confidence |-> json["expected_confidence"],
     expected_readiness |-> json["expected_readiness"],
     expected_duration |-> json["expected_duration"],
     service_scores |-> json["service_scores"],
     pinned_at |-> IF "pinned_at" \in DOMAIN json
                   THEN Some(json["pinned_at"]) ELSE None,
     promoted_at |-> IF "promoted_at" \in DOMAIN json
                     THEN Some(json["promoted_at"]) ELSE None]

\* save_baseline's BaselineHistoryEntry.
HistoryEntry(b, promoted_at) ==
    [promoted_at |-> promoted_at, pinned_at |-> b.pinned_at,
     expected_confidence |-> b.expected_confidence,
     expected_readiness |-> b.expected_readiness,
     expected_duration |-> b.expected_duration,
     expected_services |-> b.expected_services,
     service_scores |-> b.service_scores]

\* What may fail in save_baseline: nothing, the write of the baseline file
\* (or the creation of its directory), the write of the history entry (or
\* the creation of its directory).
SaveFaults == {"none", "baseline_file", "history_entry"}

\* save_baseline: the pinned file is written first, the history entry
\* after it; each "?" returns the error at once.
save_baseline(b, now, fault) ==
    LET promoted_at == unwrap_or(b.promoted_at, now_timestamp(now))
    IN  IF fault = "baseline_file"
        THEN [pinned |-> pinned, baseHist |-> baseHist, ok |-> FALSE]
        ELSE IF fault = "history_entry"
        THEN [pinned |-> Some(BaselineJson(b)), baseHist |-> baseHist,
              ok |-> FALSE]
        ELSE [pinned |-> Some(BaselineJson(b)),
              baseHist |-> Insert(baseHist, FileName(promoted_at),
                                  HistoryEntry(b, promoted_at)),
              ok |-> TRUE]

Command(op, arg, ok, save) ==
    [op |-> op, arg |-> arg, ok |-> ok, save |-> save,
     pinnedBefore |-> pinned, histBefore |-> baseHist]

\* main.rs `baseline set`: the latest run record is pinned by save_baseline.
\* Without a record there is nothing to save.
BaselineSet ==
    /\ Cardinality(DOMAIN baseHist) < MaxSaves
    /\ \E now \in SaveInstants, fault \in SaveFaults :
          /\ Before(bwall, now)
          /\ bwall' = now
          /\ IF DOMAIN runsDir = {}
             THEN /\ bcall' = Command("set", None, FALSE, "not called")
                  /\ UNCHANGED <<pinned, baseHist>>
             ELSE LET record == runsDir[LastEntry(DOMAIN runsDir)]
                  IN  \E keys \in KeyOrders(DOMAIN record.services) :
                         LET saved == save_baseline(
                                         BaselineOf(record, keys, now),
                                         now, fault)
                         IN  /\ pinned' = saved.pinned
                             /\ baseHist' = saved.baseHist
                             /\ bcall' = Command("set", None, saved.ok,
                                            IF saved.ok THEN "ok" ELSE "err")
    /\ loaded' = None
    /\ UNCHANGED runsDir
    /\ UNCHANGED notBaseline

\* baseline.rs promote_baseline(stack, timestamp).
PromoteBaseline ==
    /\ Cardinality(DOMAIN baseHist) < MaxSaves
    /\ \E timestamp \in PromoteArgs, now \in SaveInstants,
          fault \in SaveFaults :
          /\ Before(bwall, now)
          /\ bwall' = now
          /\ IF DOMAIN runsDir = {}
                \/ PromoteTarget(DOMAIN runsDir, timestamp) = None
             THEN /\ bcall' = Command("promote", timestamp, FALSE,
                                      "not called")
                  /\ UNCHANGED <<pinned, baseHist>>
             ELSE LET target == unwrap(PromoteTarget(DOMAIN runsDir,
                                                     timestamp))
                      record == runsDir[target]
                  IN  \E keys \in KeyOrders(DOMAIN record.services) :
                         LET saved == save_baseline(
                                         BaselineOf(record, keys, now),
                                         now, fault)
                         IN  /\ pinned' = saved.pinned
                             /\ baseHist' = saved.baseHist
                             /\ bcall' = Command("promote", timestamp,
                                            saved.ok,
                                            IF saved.ok THEN "ok" ELSE "err")
    /\ loaded' = None
    /\ UNCHANGED runsDir
    /\ UNCHANGED notBaseline

\* baseline.rs delete_baseline: the pinned file is removed, if it exists.
DeleteBaseline ==
    /\ bcall.op # "delete"
    /\ pinned' = None
    /\ bcall' = Command("delete", None, TRUE, "not called")
    /\ loaded' = None
    /\ UNCHANGED <<runsDir, baseHist, bwall>>
    /\ UNCHANGED notBaseline

\* baseline.rs load_baseline.
LoadBaseline ==
    /\ loaded = None
    /\ loaded' = Some(IF pinned = None THEN None
                      ELSE Some(ParseBaseline(unwrap(pinned))))
    /\ UNCHANGED <<runsDir, pinned, baseHist, bwall, bcall>>
    /\ UNCHANGED notBaseline

NoCommand ==
    [op |-> "none", arg |-> None, ok |-> TRUE, save |-> "not called",
     pinnedBefore |-> None, histBefore |-> NoDir]

BaselineInit ==
    /\ runsDir \in RunDirs
    /\ pinned = None
    /\ baseHist = NoDir
    /\ bwall = [sec |-> 0, nanos |-> 0]
    /\ bcall = NoCommand
    /\ loaded = None

BaselineAtRest ==
    /\ runsDir = DirOf({})
    /\ pinned = None
    /\ baseHist = NoDir
    /\ bwall = [sec |-> 0, nanos |-> 0]
    /\ bcall = NoCommand
    /\ loaded = None

(***************************************************************************)
(*            SpecFire: the fire time of one watch on one tick             *)
(***************************************************************************)
\* Time is counted in hours since 2023-01-01T00:00Z, a Sunday and the first
\* day of a month.  The schedules are the 5-field expressions
\*   hourly  "0 * * * *"     daily   "0 0 * * *"
\*   weekly  "0 0 * * 0"     monthly "0 0 1 * *"
\* each read by cron::Schedule::from_str with "0 " put in front of it.
CronExprs == {"hourly", "daily", "weekly", "monthly"}

Hours == 0..MaxHours

\* The hours at which the months of 2023 begin (31, 28, 31, ... days).
MonthStarts == {0, 744, 1416, 2160, 2880, 3624, 4344, 5088, 5832, 6552, 7296,
                8016}

\* The times of a schedule within the modelled hours.
ScheduleTimes(expr) ==
    CASE expr = "hourly"  -> Hours
      [] expr = "daily"   -> {t \in Hours : t % 24 = 0}
      [] expr = "weekly"  -> {t \in Hours : t % 168 = 0}
      [] expr = "monthly" -> Hours \cap MonthStarts

\* schedule.after(&(now - 25h)): the times strictly after now - 25h, from
\* which take_while(|t| t <= &now).last() keeps the last one not after now.
last_fire(expr, now) ==
    LET passed == {t \in ScheduleTimes(expr) : t > now - Lookback /\ t <= now}
    IN  IF passed = {} THEN None ELSE Some(SetMax(passed))

\* One watch as a tick meets it: its schedule, its catch_up flag, the entry
\* of last_run for its stack (None: no entry), and the time of the tick.
WatchAt(expr, catch_up, prev, now) ==
    [expr |-> expr, catch_up |-> catch_up, prev |-> prev, now |-> now]

Pending(in) ==
    [in |-> in, pc |-> "due", last_fire |-> None, last_run |-> in.prev,
     dispatched |-> 0]

\* The body of `for watch in &registry.watches` for the watch: no fire time
\* found, slot already run, slot recorded and skipped, or recorded and fired.
EvalSchedule ==
    /\ firing.pc = "due"
    /\ LET in == firing.in
           lf == last_fire(in.expr, in.now)
           t  == CHOOSE x \in lf : TRUE
           prev == CHOOSE x \in in.prev : TRUE
       IN  firing' =
             IF lf = None
             THEN [firing EXCEPT !.pc = "none"]
             ELSE IF in.prev # None /\ prev >= t
             THEN [firing EXCEPT !.pc = "already", !.last_fire = lf]
             ELSE IF in.prev # None /\ ~in.catch_up
             THEN [firing EXCEPT !.pc = "skipped", !.last_fire = lf,
                               !.last_run = Some(t)]
             ELSE [firing EXCEPT !.pc = "fired", !.last_fire = lf,
                               !.last_run = Some(t), !.dispatched = 1]
    /\ UNCHANGED notFire

\* The stored entry is a time of the schedule that has passed.
FireInit ==
    \E e \in CronExprs, c \in BOOLEAN, n \in Hours :
        \E p \in {None} \cup {Some(t) : t \in ScheduleTimes(e) \cap 0..n} :
            firing = Pending(WatchAt(e, c, p, n))

FireAtRest ==
    firing = Pending(WatchAt("hourly", FALSE, None, 0))

(***************************************************************************)
(*        SpecPrepare: preflight and the image step of test_stack          *)
(***************************************************************************)
\* Text is a sequence of character codes: ':' 58, '/' 47, '=' 61, ' ' 32.
HasChar(text, c) == \E i \in DOMAIN text : text[i] = c

\* str::ends_with, str::starts_with(char).
EndsWith(text, suffix) ==
    /\ Len(text) >= Len(suffix)
    /\ SubSeq(text, Len(text) - Len(suffix) + 1, Len(text)) = suffix

StartsWith(text, c) == Len(text) > 0 /\ text[1] = c

\* str::split_once(c): the parts before and after the first c, or None.
SplitOnce(text, c) ==
    IF ~HasChar(text, c) THEN None
    ELSE LET i == CHOOSE k \in DOMAIN text :
                     text[k] = c /\ \A j \in 1..(k - 1) : text[j] # c
         IN  Some(<<SubSeq(text, 1, i - 1), SubSeq(text, i + 1, Len(text))>>)

\* str::trim, for blanks.
RECURSIVE Trim(_)
Trim(text) ==
    IF text = <<>> THEN text
    ELSE IF text[1] = 32 THEN Trim(Tail(text))
    ELSE IF text[Len(text)] = 32 THEN Trim(SubSeq(text, 1, Len(text) - 1))
    ELSE text

RECURSIVE Concat(_)
Concat(seqs) == IF seqs = <<>> THEN <<>> ELSE Head(seqs) \o Concat(Tail(seqs))

\* ":latest"
LatestSuffix == <<58, 108, 97, 116, 101, 115, 116>>

\* The images "a:1", "r", "a:latest" and "h:5/a" (registry h, port 5).
PinnedImage == <<97, 58, 49>>
TaglessImage == <<114>>
LatestImage == <<97>> \o LatestSuffix
MirrorImage == <<104, 58, 53, 47, 97>>

\* The volumes "/d:/d" (bind mount), "v:/d" (named) and "/d" (anonymous),
\* and the environment entries "S" (bare key), " T " (bare key, blanks
\* around it) and "K=v".
BindVolume == <<47, 100, 58, 47, 100>>
NamedVolume == <<118, 58, 47, 100>>
AnonymousVolume == <<47, 100>>
BareKey == <<83>>
BlankKey == <<32, 84, 32>>
KeyValue == <<75, 61, 118>>

\* compose.rs Service, the fields preflight and the image step read.
PlainService ==
    [image |-> Some(PinnedImage), volumes |-> None, environment |-> None]

RiskyService ==
    [image |-> Some(TaglessImage), volumes |-> Some(<<BindVolume>>),
     environment |-> Some(<<BareKey, BlankKey>>)]

ServiceShapes ==
    {PlainService, RiskyService,
     [image |-> Some(LatestImage),
      volumes |-> Some(<<NamedVolume, AnonymousVolume>>),
      environment |-> Some(<<KeyValue>>)],
     [image |-> Some(MirrorImage), volumes |-> None, environment |-> None]}

\* The compose files: service name -> Service.
PrepComposeFiles ==
    {[api |-> a, db |-> b] : a \in ServiceShapes,
                             b \in {PlainService, RiskyService}}

PrepServices == {"api", "db"}

\* The top-level networks block of the compose file, in file order, and
\* what docker.list_networks answers: the names of the host's networks, or
\* None (Err).
InternalBlock == <<[name |-> "back", external |-> FALSE]>>
ExternalBlock ==
    <<[name |-> "back", external |-> FALSE],
      [name |-> "proxy", external |-> TRUE]>>

NetworkCases ==
    {[networks |-> InternalBlock, listing |-> Some({"bridge"})],
     [networks |-> ExternalBlock, listing |-> Some({"bridge"})],
     [networks |-> ExternalBlock, listing |-> Some({"bridge", "proxy"})],
     [networks |-> ExternalBlock, listing |-> None]}

\* compose.rs extract_external_networks: the names marked external.
extract_external_networks(block) ==
    Concat([i \in DOMAIN block |->
              IF block[i].external THEN <<block[i].name>> ELSE <<>>])

Finding(rule, severity, penalty, kind, about) ==
    [rule |-> rule, severity |-> severity, penalty |-> penalty,
     kind |-> kind, about |-> about]

\* BindMountRule::evaluate for one volume of one service.
VolumeFindings(name, volume, paths) ==
    LET parts == SplitOnce(volume, 58)
        host_path == unwrap(parts)[1]
    IN  IF parts = None THEN <<>>
        ELSE IF ~StartsWith(host_path, 47) THEN <<>>
        ELSE IF host_path \notin paths
        THEN <<Finding("BindMountRule", "Critical", 25, "missing bind path",
                       <<name, host_path>>)>>
        ELSE <<Finding("BindMountRule", "Info", 0, "bind mount",
                       <<name, host_path>>)>>

\* BindMountRule::evaluate: the services in the HashMap's order.
BindMountRule(services, order, paths) ==
    Concat([i \in DOMAIN order |->
        LET volumes == services[order[i]].volumes
        IN  IF volumes = None THEN <<>>
            ELSE Concat([j \in DOMAIN unwrap(volumes) |->
                    VolumeFindings(order[i], unwrap(volumes)[j], paths)])])

\* ImagePullRule::evaluate for one service: the tag warning, and the
\* attempted pull (pulled: did create_image succeed).
ImageFindings(name, image, pulled) ==
    (IF EndsWith(image, LatestSuffix) \/ ~HasChar(image, 58)
     THEN <<Finding("ImagePullRule", "Warning", 5, "unpinned image tag",
                    <<name, image>>)>>
     ELSE <<>>)
    \o (IF ~pulled
        THEN <<Finding("ImagePullRule", "Critical", 30, "cannot be pulled",
                       <<name, image>>)>>
        ELSE <<>>)

ImagePullRule(services, order, pulled) ==
    Concat([i \in DOMAIN order |->
        LET image == services[order[i]].image
        IN  IF image = None THEN <<>>
            ELSE ImageFindings(order[i], unwrap(image), pulled[order[i]])])

\* EnvVarRule::evaluate for one entry of one service.
EntryFindings(name, entry, environment) ==
    IF HasChar(entry, 61) THEN <<>>
    ELSE IF Trim(entry) \in environment
    THEN <<Finding("EnvVarRule", "Info", 0, "inherits", <<name, Trim(entry)>>)>>
    ELSE <<Finding("EnvVarRule", "Critical", 20, "env var not set",
                   <<name, Trim(entry)>>)>>

EnvVarRule(services, order, environment) ==
    Concat([i \in DOMAIN order |->
        LET entries == services[order[i]].environment
        IN  IF entries = None THEN <<>>
            ELSE Concat([j \in DOMAIN unwrap(entries) |->
                    EntryFindings(order[i], unwrap(entries)[j], environment)])])

\* ExternalNetworkRule::evaluate.
ExternalNetworkRule(block, listing) ==
    LET external == extract_external_networks(block)
    IN  IF external = <<>> THEN <<>>
        ELSE IF listing = None THEN <<>>
        ELSE [i \in DOMAIN external |->
                IF external[i] \notin unwrap(listing)
                THEN Finding("ExternalNetworkRule", "Critical", 25,
                             "network does not exist", external[i])
                ELSE Finding("ExternalNetworkRule", "Info", 0,
                             "network exists", external[i])]

Penalties(findings) == [i \in DOMAIN findings |-> findings[i].penalty]

\* One run's inputs: the compose file (services, the order its HashMap
\* yields them in, its networks block), the host (paths that exist, the
\* environment's keys, the runtime's network listing, the images in the
\* local store) and the pull policy.
PrepareInputs ==
    [services : PrepComposeFiles,
     order : KeyOrders(PrepServices),
     net : NetworkCases,
     paths : SUBSET {<<47, 100>>},
     environment : SUBSET {BareKey},
     local : SUBSET {PinnedImage, TaglessImage, LatestImage, MirrorImage},
     pull_policy : PullPolicies]

ImagesOf(services) == {unwrap(services[s].image) : s \in DOMAIN services}

Prepared(in) ==
    [in |-> in, pc |-> "BindMountRule", findings |-> <<>>, score |-> None,
     local |-> in.local, pulls |-> <<>>, i |-> 1, created |-> {}]

\* run_preflight, rule by rule: each rule's findings are appended.
EvaluateBindMount ==
    /\ prep.pc = "BindMountRule"
    /\ prep' = [prep EXCEPT !.pc = "ImagePullRule",
                  !.findings = @ \o BindMountRule(prep.in.services,
                                                  prep.in.order, prep.in.paths)]
    /\ UNCHANGED notPrepare

\* The pulls ImagePullRule attempts, in the order of the services.
PreflightPulls(services, order, pulled) ==
    [i \in DOMAIN order |->
        [by |-> "preflight", image |-> unwrap(services[order[i]].image),
         ok |-> pulled[order[i]]]]

\* ImagePullRule: create_image for every service's image; an image pulled
\* is in the local store from then on.
EvaluateImagePull ==
    /\ prep.pc = "ImagePullRule"
    /\ \E pulled \in [PrepServices -> BOOLEAN] :
         LET attempts == PreflightPulls(prep.in.services, prep.in.order,
                                        pulled)
         IN  prep' = [prep EXCEPT !.pc = "EnvVarRule",
                !.findings = @ \o ImagePullRule(prep.in.services,
                                                prep.in.order, pulled),
                !.pulls = @ \o attempts,
                !.local = @ \cup {attempts[k].image :
                                    k \in {j \in DOMAIN attempts :
                                             attempts[j].ok}}]
    /\ UNCHANGED notPrepare

EvaluateEnvVar ==
    /\ prep.pc = "EnvVarRule"
    /\ prep' = [prep EXCEPT !.pc = "ExternalNetworkRule",
                  !.findings = @ \o EnvVarRule(prep.in.services, prep.in.order,
                                               prep.in.environment)]
    /\ UNCHANGED notPrepare

\* The last rule, and compute_score over all the findings.
EvaluateExternalNetwork ==
    /\ prep.pc = "ExternalNetworkRule"
    /\ LET findings == prep.findings \o
                       ExternalNetworkRule(prep.in.net.networks,
                                           prep.in.net.listing)
       IN  prep' = [prep EXCEPT !.pc = "policy", !.findings = findings,
                      !.score = Some(compute_score(Penalties(findings)))]
    /\ UNCHANGED notPrepare

\* stack.rs 171-186: the pull policy for the next service's image.
\* docker.inspect_image(..).is_err(): the image is not in the local store.
ApplyPullPolicy ==
    /\ prep.pc = "policy"
    /\ LET image == unwrap(prep.in.services[prep.in.order[prep.i]].image)
           absent == image \notin prep.local
           pull(ok) ==
               [prep EXCEPT !.pc = IF ok THEN "create" ELSE "fatal",
                  !.pulls = Append(@, [by |-> "run", image |-> image,
                                       ok |-> ok]),
                  !.local = IF ok THEN @ \cup {image} ELSE @]
       IN  CASE prep.in.pull_policy = "Always" ->
                  \E ok \in BOOLEAN : prep' = pull(ok)
             [] prep.in.pull_policy = "IfMissing" ->
                  IF absent THEN \E ok \in BOOLEAN : prep' = pull(ok)
                  ELSE prep' = [prep EXCEPT !.pc = "create"]
             [] prep.in.pull_policy = "Never" ->
                  prep' = [prep EXCEPT
                             !.pc = IF absent THEN "fatal" ELSE "create"]
    /\ UNCHANGED notPrepare

\* stack.rs 188-233: the service's container is created; the next service.
CreateFromImage ==
    /\ prep.pc = "create"
    /\ prep' = [prep EXCEPT
                  !.created = @ \cup {prep.in.order[prep.i]},
                  !.i = @ + 1,
                  !.pc = IF prep.i = Len(prep.in.order) THEN "done"
                         ELSE "policy"]
    /\ UNCHANGED notPrepare

PrepareInit == \E in \in PrepareInputs :
    /\ in.local \subseteq ImagesOf(in.services)
    /\ prep = Prepared(in)

PrepareAtRest ==
    prep = Prepared(
        [services |-> [s \in PrepServices |->
                         [image |-> Some(PinnedImage), volumes |-> None,
                          environment |-> None]],
         order |-> <<"api", "db">>,
         networks |-> <<[name |-> "back", external |-> FALSE]>>,
         paths |-> {}, environment |-> {}, listing |-> None, local |-> {},
         pull_policy |-> "IfMissing"])

(***************************************************************************)
(*                    SpecNotify: one call of notify()                     *)
(***************************************************************************)
\* notify.rs NotifyEvent.
NotifyEvents ==
    {"RehearsalFatalError", "ProviderVerificationFailed", "PolicyViolation",
     "BaselineDrift", "RehearsalRecovered"}

\* notify.rs NotifyChannel: the webhook URL and the email provider, each
\* there or not.
Channel(url, email) == [url |-> url, email |-> email]

ChannelShapes ==
    {Channel(u, e) : u \in {None, Some("https://hook")},
                     e \in {None, Some("Smtp"), Some("Sendgrid")}}

\* The notify registry on disk: None when load_registry fails, else the
\* default channel's name and the channels by name.
NotifyRegistries ==
    {None} \cup
    {Some([default_channel |-> dflt, channels |-> [n \in {"ops"} |-> c]]) :
        dflt \in {None, Some("ops"), Some("gone")}, c \in ChannelShapes}

\* resolve_channel: the per-stack name or else the default one, looked up
\* among the channels; None at every miss.
resolve_channel(per_stack, registry) ==
    IF registry = None THEN None
    ELSE LET reg == unwrap(registry)
             name == IF per_stack # None THEN per_stack
                     ELSE reg.default_channel
         IN  IF name = None THEN None
             ELSE IF unwrap(name) \notin DOMAIN reg.channels THEN None
             ELSE Some(reg.channels[unwrap(name)])

\* What send_webhook_sync and send_email_sync may return.
WebhookResults == {"Ok", "InvalidData", "curl not found", "curl error"}

EmailResults(provider) ==
    IF provider = "Smtp"
    THEN {"Ok", "InvalidInput", "TLS configuration error",
          "SMTP delivery failed"}
    ELSE {"NotFound", "InvalidInput", "Unsupported"}

Notifying(event, per_stack, registry) ==
    [event |-> event, per_stack |-> per_stack, registry |-> registry,
     pc |-> "resolve", channel |-> None, webhook |-> None, email |-> None,
     log |-> <<>>]

\* `?` on a delivery's result: an Err leaves notify at once.
AfterDeliveryPropagating(result, next) ==
    IF result = "Ok" THEN next ELSE "raised"

\* `if let Err(e) = send_..(..) { eprintln!(..) }`: notify goes on.
AfterDelivery(result, next) == next

Logged(log, transport, result) ==
    IF result = "Ok" THEN log ELSE Append(log, <<transport, result>>)

\* notify.rs 518-521: no channel, return.
Resolve ==
    /\ ntf.pc = "resolve"
    /\ LET channel == resolve_channel(ntf.per_stack, ntf.registry)
       IN  ntf' = [ntf EXCEPT !.channel = channel,
                     !.pc = IF channel = None THEN "returned" ELSE "webhook"]
    /\ UNCHANGED notNotify

\* notify.rs 538-546: the webhook transport.
SendWebhook ==
    /\ ntf.pc = "webhook"
    /\ IF unwrap(ntf.channel).url = None
       THEN ntf' = [ntf EXCEPT !.pc = "email"]
       ELSE \E result \in WebhookResults :
              ntf' = [ntf EXCEPT !.webhook = Some(result),
                        !.log = Logged(@, "webhook", result),
                        !.pc = AfterDelivery(result, "email")]
    /\ UNCHANGED notNotify

\* notify.rs 548-556: the email transport, and the end of notify.
SendEmail ==
    /\ ntf.pc = "email"
    /\ IF unwrap(ntf.channel).email = None
       THEN ntf' = [ntf EXCEPT !.pc = "returned"]
       ELSE \E result \in EmailResults(unwrap(unwrap(ntf.channel).email)) :
              ntf' = [ntf EXCEPT !.email = Some(result),
                        !.log = Logged(@, "email", result),
                        !.pc = AfterDelivery(result, "returned")]
    /\ UNCHANGED notNotify

NotifyInit ==
    \E event \in NotifyEvents, per_stack \in {None, Some("ops"), Some("gone")},
       registry \in NotifyRegistries :
        ntf = Notifying(event, per_stack, registry)

NotifyAtRest == ntf = Notifying("RehearsalRecovered", None, None)

(***************************************************************************)
(*         SpecConfig: the concurrency limit and the config file           *)
(***************************************************************************)
\* daemon.rs DEFAULT_MAX_CONCURRENT.
DEFAULT_MAX_CONCURRENT == 1

Limits == 0..MaxLimit

\* The decimal digits of n >= 0 as character codes ('0' is 48).
RECURSIVE DecimalText(_)
DecimalText(n) ==
    IF n < 10 THEN <<48 + n>> ELSE DecimalText(n \div 10) \o <<48 + (n % 10)>>

\* str::parse::<usize>: an optional '+' (43), then digits only and at
\* least one; None for anything else.
RECURSIVE DigitsValue(_, _)
DigitsValue(text, acc) ==
    IF text = <<>> THEN acc
    ELSE DigitsValue(Tail(text), 10 * acc + (Head(text) - 48))

\* A parse that takes every text but the empty one for 0.
parse_first_digit(text) ==
    IF text = <<>> THEN None ELSE Some(0)

parse_usize(text) ==
    LET digits == IF text # <<>> /\ text[1] = 43 THEN Tail(text) ELSE text
    IN  IF digits = <<>> \/ \E i \in DOMAIN digits : digits[i] \notin 48..57
        THEN None
        ELSE Some(DigitsValue(digits, 0))

\* What REHEARSA_MAX_CONCURRENT may hold: unset (None), a limit, a limit
\* with blanks around it or a sign before it, "", "x" and "-1".
EnvValues ==
    {None, Some(<<>>), Some(<<120>>), Some(<<45, 49>>)}
    \cup {Some(DecimalText(n)) : n \in Limits}
    \cup {Some(<<32>> \o DecimalText(n) \o <<32>>) : n \in Limits}
    \cup {Some(<<43>> \o DecimalText(n)) : n \in Limits}

\* /etc/rehearsa/config.json: absent, not JSON of a DaemonConfig, or a
\* DaemonConfig with max_concurrent_rehearsals None or Some(n).
ConfigFile(state, max) == [state |-> state, max_concurrent_rehearsals |-> max]

ConfigFiles ==
    {ConfigFile("absent", None), ConfigFile("unparsable", None)}
    \cup {ConfigFile("config", m) : m \in {None} \cup {Some(n) : n \in Limits}}

\* load_config: the default config for a file that cannot be read or parsed.
load_config(file) ==
    IF file.state \in {"absent", "unparsable"}
    THEN ConfigFile("config", None) ELSE file

\* resolve_concurrency: env var, then config file, then the default.
resolve_concurrency(env, file) ==
    LET n == IF env = None THEN None ELSE parse_usize(Trim(unwrap(env)))
        config == load_config(file)
    IN  IF n # None /\ unwrap(n) > 0 THEN unwrap(n)
        ELSE IF config.max_concurrent_rehearsals # None
                /\ unwrap(config.max_concurrent_rehearsals) > 0
        THEN unwrap(config.max_concurrent_rehearsals)
        ELSE DEFAULT_MAX_CONCURRENT

\* The daemon starts: Semaphore::new(resolve_concurrency()).
ResolveConcurrency ==
    /\ conf' = [conf EXCEPT
                  !.resolved = Some(resolve_concurrency(conf.env, conf.file)),
                  !.last = <<"resolve">>]
    /\ UNCHANGED notConfig

\* `rehearsa daemon config --max-concurrent n`: set_concurrency(n), with
\* save_config writing the file or failing and leaving it as it was.
SetConcurrency(n) ==
    /\ IF n = 0
       THEN conf' = [conf EXCEPT !.last = <<"set", n, "Err", conf.file>>]
       ELSE \E saved \in BOOLEAN :
              conf' = [conf EXCEPT
                 !.file = IF saved
                          THEN [load_config(conf.file) EXCEPT
                                  !.max_concurrent_rehearsals = Some(n)]
                          ELSE @,
                 !.last = <<"set", n, IF saved THEN "Ok" ELSE "Err",
                            conf.file>>]
    /\ UNCHANGED notConfig

\* The operator exports, changes or unsets the environment variable.
SetEnv(env) ==
    /\ conf.env # env
    /\ conf' = [conf EXCEPT !.env = env, !.last = <<"env">>]
    /\ UNCHANGED notConfig

Configured(env, file) ==
    [env |-> env, file |-> file, resolved |-> None, last |-> <<"start">>]

ConfigInit ==
    \E env \in EnvValues, file \in ConfigFiles : conf = Configured(env, file)

ConfigAtRest == conf = Configured(None, ConfigFile("absent", None))

(***************************************************************************)
(*          SpecWatcher: the file-watch loop and the watch registry         *)
(***************************************************************************)
\* notify's EventKind: Any, Access, Create, Modify, Remove, Other.
EventKinds == {"Any", "Access", "Create", "Modify", "Remove", "Other"}

\* Files of the watched directory, as the components of their paths: the
\* compose files of two stacks, and a file that is no stack's.
ComposeA == <<"srv", "a.yml">>
ComposeB == <<"srv", "b.yml">>
OtherFile == <<"srv", "notes.txt">>
WatchedFiles == {ComposeA, ComposeB, OtherFile}

WatchStacks == {"a", "b"}

\* event.paths: the backend names each file of an event once.
EventPaths ==
    UNION {{p \in [1..n -> WatchedFiles] :
               \A i, j \in 1..n : p[i] = p[j] => i = j} : n \in 0..MaxPaths}

\* A WatchEntry, as far as the file-watch loop reads it.
WatchEntry(stack, compose_path) ==
    [stack |-> stack, compose_path |-> compose_path]

\* Vec::retain(|w| w.stack != stack).
RetainOthers(watches, stack) ==
    SelectSeq(watches, LAMBDA w : w.stack # stack)

\* The stacks of the registry whose compose_path is changed_path, in the
\* registry's order.
MatchingWatches(changed_path, registry) ==
    Concat([i \in DOMAIN registry |->
              IF changed_path = registry[i].compose_path
              THEN <<registry[i].stack>> ELSE <<>>])

\* A filter that lets every kind of event through.
IntentsOfAnyKind(kind, paths, registry) ==
    Concat([i \in DOMAIN paths |-> MatchingWatches(paths[i], registry)])

\* daemon.rs 437-467: the rehearsal tasks one event spawns, in order.
Intents(kind, paths, registry) ==
    IF kind \in {"Modify", "Create"}
    THEN Concat([i \in DOMAIN paths |-> MatchingWatches(paths[i], registry)])
    ELSE <<>>

\* The loop is waiting in recv_timeout; `last` is what it handled last,
\* `read` the registry it loaded for it, `spawned` the stacks it spawned a
\* rehearsal task for.
Watching(file) ==
    [file |-> file, last |-> "start", kind |-> "Any", paths |-> <<>>,
     read |-> <<>>, spawned |-> <<>>]

\* Ok(Ok(event)): load_registry().unwrap_or_default() is the watches file,
\* or no watch at all when the file cannot be read or parsed.
HandleEvent(kind, paths, readable) ==
    /\ LET registry == IF readable THEN fw.file ELSE <<>>
       IN  fw' = [fw EXCEPT !.last = "event", !.kind = kind, !.paths = paths,
                            !.read = registry,
                            !.spawned = Intents(kind, paths, registry)]
    /\ UNCHANGED notWatch

\* Ok(Err(e)): the error is printed.
WatchError ==
    /\ fw' = [fw EXCEPT !.last = "error", !.kind = "Any", !.paths = <<>>,
                        !.read = <<>>, !.spawned = <<>>]
    /\ UNCHANGED notWatch

\* Err(Timeout): the heartbeat line.
Heartbeat ==
    /\ fw' = [fw EXCEPT !.last = "heartbeat", !.kind = "Any", !.paths = <<>>,
                        !.read = <<>>, !.spawned = <<>>]
    /\ UNCHANGED notWatch

\* `rehearsa daemon watch <stack> <file>` while the daemon runs: the entry
\* of the stack is replaced.
AddWatch(stack, compose_path) ==
    /\ fw' = [fw EXCEPT !.file = Append(RetainOthers(@, stack),
                                        WatchEntry(stack, compose_path))]
    /\ UNCHANGED notWatch

\* `rehearsa daemon unwatch <stack>`: an error when there is no such watch.
RemoveWatch(stack) ==
    /\ \E i \in DOMAIN fw.file : fw.file[i].stack = stack
    /\ fw' = [fw EXCEPT !.file = RetainOthers(@, stack)]
    /\ UNCHANGED notWatch

\* run_daemon returns at once on an empty registry: the loop starts with a
\* watch.
WatchInit == fw = Watching(<<WatchEntry("a", ComposeA)>>)

WatchAtRest == fw = Watching(<<>>)

(***************************************************************************)
(*                          The specifications                             *)
(***************************************************************************)
InitDaemon ==
    DaemonInit /\ SchedAtRest /\ RunAtRest /\ HistAtRest /\ WaitAtRest
    /\ PolicyAtRest
    /\ DriftAtRest
    /\ BaselineAtRest
    /\ FireAtRest
    /\ PrepareAtRest
    /\ NotifyAtRest
    /\ ConfigAtRest
    /\ WatchAtRest

SpecDaemon == InitDaemon /\ [][NextDaemon]_vars

\* The steps of a rehearsal task once it holds its permit: the executor
\* call terminates, and the task ends.
TaskStep(t) ==
    \/ LockCreate(t)
    \/ LockRead(t)
    \/ LockRemove(t)
    \/ LockRecreate(t)
    \/ LockWrite(t)
    \/ FinishRun(t)
    \/ ReleasePermit(t)

\* tokio's Semaphore queues its waiters first come, first served: a task
\* that waits while permits keep coming back gets one (strong fairness of
\* the acquire); the runtime runs every task that can take a step.
SpecDaemonFair ==
    /\ InitDaemon /\ [][NextDaemon]_vars
    /\ \A t \in DaemonTasks : SF_vars(AcquirePermit(t))
    /\ \A t \in DaemonTasks : WF_vars(TaskStep(t))

\* StackLock::acquire is straight-line code: a call that has entered it
\* takes its next step.
AcquireStep(t) ==
    \/ LockCreate(t)
    \/ LockRead(t)
    \/ LockRemove(t)
    \/ LockRecreate(t)
    \/ LockWrite(t)

SpecDaemonLive ==
    InitDaemon /\ [][NextDaemon]_vars /\ \A t \in Tasks : WF_vars(AcquireStep(t))

InitSched ==
    SchedInit /\ DaemonAtRest /\ RunAtRest /\ HistAtRest /\ WaitAtRest
    /\ PolicyAtRest
    /\ DriftAtRest
    /\ BaselineAtRest
    /\ FireAtRest
    /\ PrepareAtRest
    /\ NotifyAtRest
    /\ ConfigAtRest
    /\ WatchAtRest

NextSched ==
    \/ Advance
    \/ SchedulerTick
    \/ EvalWatch
    \/ SaveOpen
    \/ SaveWrite
    \/ Dispatch
    \/ Crash
    \/ Restart

SpecSched == InitSched /\ [][NextSched]_vars

InitRun ==
    RunInit /\ DaemonAtRest /\ SchedAtRest /\ HistAtRest /\ WaitAtRest
    /\ PolicyAtRest
    /\ DriftAtRest
    /\ BaselineAtRest
    /\ FireAtRest
    /\ PrepareAtRest
    /\ NotifyAtRest
    /\ ConfigAtRest
    /\ WatchAtRest

NextRun ==
    \/ Begin
    \/ TopoSort
    \/ CreateNetwork
    \/ ResolveImage
    \/ CreateContainer
    \/ StartContainer
    \/ WaitAndScore
    \/ TearDown
    \/ Aggregate
    \/ CliHandle
    \/ DaemonHandle

SpecRun == InitRun /\ [][NextRun]_vars

InitHistory ==
    HistInit /\ DaemonAtRest /\ SchedAtRest /\ RunAtRest /\ WaitAtRest
    /\ PolicyAtRest
    /\ DriftAtRest
    /\ BaselineAtRest
    /\ FireAtRest
    /\ PrepareAtRest
    /\ NotifyAtRest
    /\ ConfigAtRest
    /\ WatchAtRest

NextHistory ==
    \/ Persist
    \/ Tamper
    \/ Validate
    \/ LoadLatest

SpecHistory == InitHistory /\ [][NextHistory]_vars

InitWait ==
    WaitInit /\ DaemonAtRest /\ SchedAtRest /\ RunAtRest /\ HistAtRest
    /\ PolicyAtRest
    /\ DriftAtRest
    /\ BaselineAtRest
    /\ FireAtRest
    /\ PrepareAtRest
    /\ NotifyAtRest
    /\ ConfigAtRest
    /\ WatchAtRest

NextWait ==
    \/ Poll
    \/ Expire

SpecWait == InitWait /\ [][NextWait]_vars

InitPolicy ==
    PolicyInit /\ DaemonAtRest /\ SchedAtRest /\ RunAtRest /\ HistAtRest
    /\ WaitAtRest
    /\ DriftAtRest
    /\ BaselineAtRest
    /\ FireAtRest
    /\ PrepareAtRest
    /\ NotifyAtRest
    /\ ConfigAtRest
    /\ WatchAtRest

NextPolicy ==
    \/ EvaluatePolicy

SpecPolicy == InitPolicy /\ [][NextPolicy]_vars

InitDrift ==
    DriftInit /\ DaemonAtRest /\ SchedAtRest /\ RunAtRest /\ HistAtRest
    /\ WaitAtRest /\ PolicyAtRest
    /\ BaselineAtRest
    /\ FireAtRest
    /\ PrepareAtRest
    /\ NotifyAtRest
    /\ ConfigAtRest
    /\ WatchAtRest

NextDrift ==
    \/ CompareToBaseline

SpecDrift == InitDrift /\ [][NextDrift]_vars

InitBaseline ==
    BaselineInit /\ DaemonAtRest /\ SchedAtRest /\ RunAtRest /\ HistAtRest
    /\ WaitAtRest /\ PolicyAtRest /\ DriftAtRest
    /\ FireAtRest
    /\ PrepareAtRest
    /\ NotifyAtRest
    /\ ConfigAtRest
    /\ WatchAtRest

NextBaseline ==
    \/ BaselineSet
    \/ PromoteBaseline
    \/ DeleteBaseline
    \/ LoadBaseline

SpecBaseline == InitBaseline /\ [][NextBaseline]_vars

InitFire ==
    DaemonAtRest /\ SchedAtRest /\ RunAtRest /\ HistAtRest /\ WaitAtRest
    /\ PolicyAtRest /\ DriftAtRest /\ BaselineAtRest /\ PrepareAtRest
    /\ FireInit
    /\ NotifyAtRest
    /\ ConfigAtRest
    /\ WatchAtRest

NextFire == EvalSchedule

SpecFire == InitFire /\ [][NextFire]_vars

InitPrepare ==
    DaemonAtRest /\ SchedAtRest /\ RunAtRest /\ HistAtRest /\ WaitAtRest
    /\ PolicyAtRest /\ DriftAtRest /\ BaselineAtRest /\ FireAtRest
    /\ PrepareInit
    /\ NotifyAtRest
    /\ ConfigAtRest
    /\ WatchAtRest

NextPrepare ==
    \/ EvaluateBindMount
    \/ EvaluateImagePull
    \/ EvaluateEnvVar
    \/ EvaluateExternalNetwork
    \/ ApplyPullPolicy
    \/ CreateFromImage

SpecPrepare == InitPrepare /\ [][NextPrepare]_vars

InitNotify ==
    DaemonAtRest /\ SchedAtRest /\ RunAtRest /\ HistAtRest /\ WaitAtRest
    /\ PolicyAtRest /\ DriftAtRest /\ BaselineAtRest /\ FireAtRest
    /\ PrepareAtRest /\ NotifyInit
    /\ ConfigAtRest
    /\ WatchAtRest

NextNotify ==
    \/ Resolve
    \/ SendWebhook
    \/ SendEmail

SpecNotify == InitNotify /\ [][NextNotify]_vars

InitConfig ==
    DaemonAtRest /\ SchedAtRest /\ RunAtRest /\ HistAtRest /\ WaitAtRest
    /\ PolicyAtRest /\ DriftAtRest /\ BaselineAtRest /\ FireAtRest
    /\ PrepareAtRest /\ NotifyAtRest /\ ConfigInit
    /\ WatchAtRest

NextConfig ==
    \/ ResolveConcurrency
    \/ \E n \in Limits : SetConcurrency(n)
    \/ \E env \in EnvValues : SetEnv(env)

SpecConfig == InitConfig /\ [][NextConfig]_vars

InitWatcher ==
    DaemonAtRest /\ SchedAtRest /\ RunAtRest /\ HistAtRest /\ WaitAtRest
    /\ PolicyAtRest /\ DriftAtRest /\ BaselineAtRest /\ FireAtRest
    /\ PrepareAtRest /\ NotifyAtRest /\ ConfigAtRest /\ WatchInit

NextWatcher ==
    \/ \E kind \in EventKinds, paths \in EventPaths, readable \in BOOLEAN :
          HandleEvent(kind, paths, readable)
    \/ WatchError
    \/ Heartbeat
    \/ \E stack \in WatchStacks, path \in {ComposeA, ComposeB} :
          AddWatch(stack, path)
    \/ \E stack \in WatchStacks : RemoveWatch(stack)

SpecWatcher == InitWatcher /\ [][NextWatcher]_vars

(***************************************************************************)
(*                 Properties of SpecDaemon (lock, semaphore)              *)
(***************************************************************************)

\* C1 (lock exclusion): two calls of test_stack on the same stack, in the
\* daemon or in the daemon and the one-shot CLI, are never both past
\* StackLock::acquire at the same time.  The code does not keep this: the
\* exclusive create and the write of the pid line are two steps, and an
\* acquirer that reads the file in between takes it for a corrupt lock.
C1_LockExclusion ==
    \A t1, t2 \in Tasks :
        (t1 # t2 /\ tasks[t1].stack = tasks[t2].stack)
            => ~(PostLock(t1) /\ PostLock(t2))

\* A daemon task that holds a permit: it is inside trigger_rehearsal, or
\* has returned from it and not yet ended.
HoldsPermit(t) ==
    tasks[t].pc \in {"lock_create", "lock_write", "lock_read", "lock_remove",
                     "lock_recreate", "rehearse", "returned"}

PermitHolders == {t \in DaemonTasks : HoldsPermit(t)}

\* C3 (concurrency limit): the trigger_rehearsal calls in progress, over
\* file-watch and scheduler tasks together, never exceed the limit N, and
\* each of them holds one permit of the semaphore from before the call
\* until after it has returned.
C3_ConcurrencyLimit ==
    /\ Cardinality(PermitHolders) <= maxConcurrent
    /\ sem = maxConcurrent - Cardinality(PermitHolders)

\* All permits are out, a rehearsal is running and a further task waits.
C3_Witness ==
    /\ sem = 0
    /\ \E t \in DaemonTasks : PostLock(t)
    /\ \E t \in DaemonTasks : tasks[t].pc = "wait_permit"

\* C7 (intent dropped), at the default limit N = 1: an intent for a stack
\* that arrived while a rehearsal of that stack was in progress never gets
\* to run a rehearsal of its own; its call ends with LockHeld (or at the
\* provider gate).  The code does not keep this: the task waits for the
\* permit and rehearses once the first run has ended.
C7_IntentDropped ==
    maxConcurrent = 1 =>
        \A t \in DaemonTasks :
            tasks[t].during =>
                /\ ~PostLock(t)
                /\ tasks[t].pc = "returned" =>
                       tasks[t].res \in {"lock_held", "provider_failed"}

\* Task t removes the lock file of its stack in this step: the stale-lock
\* branch of acquire, or the Drop of the guard.
RemovesLock(t) ==
    /\ tasks[t].pc \in {"lock_remove", "rehearse"}
    /\ tasks'[t].pc # tasks[t].pc
    /\ lockFile[tasks[t].stack].exists
    /\ ~lockFile'[tasks[t].stack].exists

\* The process that created the lock file of stack s is still alive.
CreatorAlive(s) ==
    /\ lockFile[s].creator \in Tasks
    /\ process_alive(PidOf(lockFile[s].creator))

\* C38: a lock file is removed only by the process that created it, or by
\* an acquirer after the creating process has died: no acquirer removes the
\* lock of a live holder (not even between the holder's create and its
\* write of the pid line), and no Drop removes a file that another process
\* has created since.
C38_LockRemovedByOwnerOrAfterDeath ==
    [][\A t \in Tasks :
          RemovesLock(t) =>
              \/ lockFile[tasks[t].stack].creator \in Tasks
                 /\ PidOf(lockFile[tasks[t].stack].creator) = PidOf(t)
              \/ ~CreatorAlive(tasks[t].stack)]_vars

\* A step in which a daemon task ends.
TaskEnds(t) == tasks[t].pc = "returned" /\ tasks'[t].pc = "idle"

\* C39: no intent is lost or starved by the semaphore.  Every executor call
\* terminating, every rehearsal task spawned by the file watcher or the
\* scheduler gets a permit and enters trigger_rehearsal; the permit goes
\* back when the task ends, after Ok, after an error or after a panic; and
\* with no rehearsal task holding one, all N permits are available.
C39_NoIntentStarved ==
    /\ \A t \in DaemonTasks :
          (tasks[t].pc = "wait_permit") ~> HoldsPermit(t)
    /\ [][\A t \in DaemonTasks : TaskEnds(t) => sem' = sem + 1]_vars
    /\ [](PermitHolders = {} => sem = maxConcurrent)

\* A rehearsal has panicked and its task is about to end, all permits are
\* out and another task waits for one.
C39_Witness ==
    /\ sem = 0
    /\ \E t \in DaemonTasks :
          tasks[t].pc = "returned" /\ tasks[t].res = "panic"
    /\ \E t \in DaemonTasks : tasks[t].pc = "wait_permit"

(***************************************************************************)
(*                        Properties of SpecSched                          *)
(***************************************************************************)

\* C4 (record before dispatch): when the scheduler spawns the rehearsal of
\* a slot, last_run and the state file already hold that slot; and so,
\* whatever crashes and restarts happen, no (stack, fire time) is spawned
\* twice.  The code does not keep this: fs::write truncates the file before
\* it writes, and a crash in between loses the slot of every stack.
C4_NoSlotReplayed ==
    /\ sched.pc = "spawn" =>
          LET s == Registry[sched.idx].stack IN
          /\ s \in DOMAIN last_run /\ last_run[s] = sched.fire
          /\ stateFile.valid
          /\ s \in DOMAIN stateFile.map /\ stateFile.map[s] = sched.fire
    /\ replayed = {}

\* The scheduler is between two passes of its loop.
TickDone == up /\ sched.pc = "sleep"

\* C5 (scenario 6): for a watch with catch_up = false, a daemon that comes
\* back after two or more missed fire times records the latest of them and
\* dispatches none; and a fire time that then elapses while the daemon is
\* running is dispatched.  The code does not keep the second half: with an
\* entry in last_run and catch_up = false every new slot is taken for a
\* missed one and skipped.
C5_NextWindowFires ==
    \A s \in runLog.missedTwo :
        /\ \A slot \in runLog.fired :
               slot[1] = s => slot[2] > runLog.since
        /\ (TickDone /\ s \in DOMAIN last_run /\ last_run[s] > runLog.since)
               => <<s, last_run[s]>> \in dispatched

\* An EvalWatch step that finds the slot of the current watch already run.
FoundAlreadyFired ==
    /\ up /\ sched.pc = "eval"
    /\ LET w == Registry[sched.idx]
           lf == LastFire(w.period, sched.now)
       IN  /\ lf # {}
           /\ w.stack \in DOMAIN last_run
           /\ last_run[w.stack] >= SetMax(lf)

\* C6 (scheduler idempotence): within one run of the daemon no (stack,
\* fire time) is dispatched twice; and a pass that finds last_run[stack] >=
\* last_fire dispatches nothing and leaves last_run and the state file as
\* they are.
C6_OneDispatchPerWindow ==
    /\ [](runLog.twice = {})
    /\ [][(FoundAlreadyFired /\ up' /\ sched' # sched)
            => /\ last_run' = last_run
               /\ stateFile' = stateFile
               /\ dispatched' = dispatched
               /\ sched' = NextWatch]_vars

\* A slot this run has dispatched comes up again in a later pass.
C6_Witness ==
    /\ FoundAlreadyFired
    /\ LET w == Registry[sched.idx] IN
       /\ catchUp[w.stack]
       /\ <<w.stack, last_run[w.stack]>> \in runLog.fired
       /\ \E slot \in runLog.fired : slot[1] = w.stack /\ slot[2] < last_run[w.stack]


(***************************************************************************)
(*                         Properties of SpecRun                           *)
(***************************************************************************)
\* test_stack has returned to its caller, with Ok or with Err.
Returned == run.pc \in {"returned", "failed", "done"}

\* C2 (tear-down): once test_stack has returned, with Ok or with Err and
\* whichever bring-up step failed, no container this run created exists any
\* more and the run's network does not exist.
C2_TornDown ==
    Returned => docker.containers = {} /\ ~docker.network

\* test_stack has returned Ok(summary).
ReturnedOk == run.pc \in {"returned", "done"} /\ run.summary # None

\* The record this run persisted, and the history the run started from.
LastRecord == history[Len(history)]
HistoryBefore == SubSeq(history, 1, Len(history) - 1)

\* The returned run violated a policy rule other than drift enforcement.
OtherRuleViolatedInRun ==
    /\ run.policyFile # None
    /\ LET s == unwrap(run.summary)
       IN  OtherRuleViolated(unwrap(run.policyFile), s.confidence, s.readiness,
              analyze_regression(HistoryBefore, s.confidence, s.readiness,
                                 s.duration),
              s.service_scores)

\* The stack's policy sets fail_on_baseline_drift = true.
DriftIsEnforced ==
    /\ run.policyFile # None
    /\ unwrap_or(unwrap(run.policyFile).fail_on_baseline_drift, FALSE)

\* C8: a run with baseline drift detected, under a policy that sets
\* fail_on_baseline_drift = true and with no other rule violated, ends with
\* exit code 5, in the persisted RunRecord's exit_code and in the CLI's
\* process exit status.
C8_EnforcedDriftExitsFive ==
    (ReturnedOk /\ unwrap(run.summary).baseline_drift /\ DriftIsEnforced
        /\ ~OtherRuleViolatedInRun)
    => /\ LastRecord.exit_code = 5
       /\ (call.caller = "cli" /\ run.pc = "done") => outcome.exit = Some(5)

\* C9: when drift is detected but the policy does not set
\* fail_on_baseline_drift (or there is no policy), and no policy rule is
\* violated, the exit status of `stack test` is the confidence band: 0 from
\* 70 up, 2 for 40..69, 3 below 40.
C9_DriftAloneKeepsBand ==
    (ReturnedOk /\ call.caller = "cli" /\ run.pc = "done"
        /\ unwrap(run.summary).baseline_drift /\ ~DriftIsEnforced
        /\ ~unwrap(run.summary).policy_violated)
    => outcome.exit = Some(Band(unwrap(run.summary).confidence))

\* The stack's policy sets min_confidence = M and the scored services'
\* confidence is below M.
ConfidenceBelowMinimum ==
    /\ run.pc \in {"returned", "failed", "done"}
    /\ run.policyFile # None
    /\ BelowMinConfidence(unwrap(run.policyFile),
                          Confidence(run.service_scores))

FileOf(i) == FileName(written[i].timestamp)

\* C11 (integrity round trip): every file written by persist stores the
\* SHA-256 of its record with the hash cleared, and as long as no file is
\* modified from outside, validate_stack_integrity returns Ok.  The code
\* does not keep the second half: the services map read back from the file
\* may iterate, and so serialise, in another order than the one hashed.
C11_IntegrityRoundTrip ==
    tampered = {} =>
        /\ \A i \in 1..Len(written) :
              /\ FileOf(i) \in DOMAIN dir
              /\ dir[FileOf(i)].hash = Some(compute_hash(written[i]))
        /\ verdict # None => unwrap(verdict).ok

\* C12 (tamper detection): once a persisted record has been modified, with
\* its hash left in place or removed, validate_stack_integrity returns an
\* error, and the error names the first modified file.  The code does not
\* keep this: a record without a hash is not checked at all.
C12_TamperDetected ==
    (tampered # {} /\ verdict # None) =>
        /\ ~unwrap(verdict).ok
        /\ unwrap(verdict).file = FirstEntry(tampered)

\* C14 (monotone history): after any sequence of persist calls, with no
\* outside modification, load_latest returns the record persisted last,
\* the one with the greatest timestamp; its file has the greatest name
\* and no persist has replaced an earlier file.
C14_LoadLatestIsNewest ==
    (tampered = {} /\ written # <<>>) =>
        /\ Cardinality(DOMAIN dir) = Len(written)
        /\ LastEntry(DOMAIN dir) = FileOf(Len(written))
        /\ latest # None =>
              /\ unwrap(latest) # None
              /\ LET got == unwrap(unwrap(latest))
                     last == written[Len(written)]
                 IN  /\ got.timestamp = last.timestamp
                     /\ got.confidence = last.confidence
                     /\ AsMap(got.services) = AsMap(last.services)

\* load_latest has answered for two records of the same second whose
\* fractions print with different numbers of digits.
C14_Witness ==
    /\ latest # None
    /\ tampered = {}
    /\ Len(written) = 2
    /\ wall.nanos = 5000
    /\ written[1].timestamp = now_timestamp([sec |-> wall.sec, nanos |-> 7])

\* The history of the stack as a call may find it.
HistoriesBefore == {<<>>, <<EarlierRun>>}

ReturnedErr == run.pc \in {"failed", "done"} /\ run.error # None

DepsOf(c, n) == IF n \in DOMAIN DepMap(c) THEN Range(DepMap(c)[n]) ELSE {}

RECURSIVE ReachIn(_, _, _)
ReachIn(c, S, k) ==
    IF k = 0 THEN S
    ELSE ReachIn(c, S \cup UNION {DepsOf(c, m) : m \in S}, k - 1)

OnCycle(c, n) ==
    n \in ReachIn(c, DepsOf(c, n), Cardinality(DOMAIN Compose(c)))

HasCycle(c) == \E n \in DOMAIN Compose(c) : OnCycle(c, n)

\* The call got as far as the Compose file: no integrity failure, the lock
\* was free.
ReachedCompose == call.integrity # "violation" /\ call.lock = "free"

\* C15: for a stack whose depends_on relation has a cycle (a self-dependency
\* included), the sandbox network and the containers are never created, no
\* record is persisted, the call never returns Ok, and it returns with the
\* lock released and an error that names a service on the cycle.
C15_CycleIsFatal ==
    HasCycle(call.compose) =>
       /\ ~docker.network
       /\ docker.containers = {}
       /\ history \in HistoriesBefore
       /\ ~ReturnedOk
       /\ Returned => ~run.locked
       /\ Returned /\ ReachedCompose =>
             \E n \in DOMAIN Compose(call.compose) :
                /\ OnCycle(call.compose, n)
                /\ run.error = Some(CycleError(n))

\* The cycle api -> db -> api was entered from web, which is not on it.
C15_Witness ==
    /\ call.compose = "cyclic_tail"
    /\ run.pc = "failed"
    /\ run.error = Some(CycleError("api"))
    /\ history = <<EarlierRun>>

\* Every depends_on entry of the file names a service of the file.
DepsAreKeys(c) ==
    \A n \in DOMAIN Compose(c) :
       Range(Compose(c)[n].depends_on) \subseteq DOMAIN Compose(c)

\* C16: the order that topological_sort returns for an acyclic dependency
\* map whose dependencies are all keys holds every key exactly once, each
\* after all of its dependencies; and a service's container exists only
\* when every dependency of the service was created, started and scored.
C16_DependenciesFirst ==
    LET c == call.compose
        order == run.order
    IN  /\ (order # <<>> /\ DepsAreKeys(c)) =>
              /\ Range(order) = DOMAIN Compose(c)
              /\ Len(order) = Cardinality(DOMAIN Compose(c))
              /\ \A i \in DOMAIN order :
                    \A dep \in DepsOf(c, order[i]) :
                       \E j \in 1..(i - 1) : order[j] = dep
        /\ \A name \in docker.containers \cup Range(run.created_containers) :
              \A dep \in DepsOf(c, name) :
                 /\ dep \in Range(run.created_containers)
                 /\ dep \in DOMAIN run.service_scores
        /\ run.pc \in {"create", "start_container", "wait"} =>
              \A dep \in DepsOf(c, order[run.i]) :
                 /\ dep \in Range(run.created_containers)
                 /\ dep \in DOMAIN run.service_scores

\* The last service of a chain of three is about to be started, the keys
\* having come out of the map in the opposite order.
C16_Witness ==
    /\ call.compose = "chain"
    /\ run.order = <<"db", "api", "web">>
    /\ run.pc = "start_container"
    /\ run.order[run.i] = "web"
    /\ DOMAIN run.service_scores = {"api", "db"}

ScoreValues == {0, 40, 85, 100}

BoundedScores(services, confidence, readiness) ==
    /\ \A name \in DOMAIN services : services[name] \in ScoreValues
    /\ confidence \in 0..100
    /\ readiness \in 0..100

\* C17: in every persisted record and every returned summary each service
\* score is one of 0, 40, 85, 100, and confidence and readiness lie in
\* [0, 100].
C17_BoundedScore ==
    /\ \A k \in DOMAIN history :
          BoundedScores(history[k].services, history[k].confidence,
                        unwrap(history[k].readiness))
    /\ run.summary # None =>
          LET summary == unwrap(run.summary)
          IN  BoundedScores(summary.service_scores, summary.confidence,
                            summary.readiness)

\* Findings whose penalties add up to more than 100, and services scored
\* 85 and 40, whose mean is not a whole number.
C17_Witness ==
    /\ ReturnedOk
    /\ LastRecord.readiness = Some(0)
    /\ LastRecord.confidence = 62
    /\ unwrap(run.summary).confidence = 62
    /\ unwrap(run.summary).readiness = 0

(***************************************************************************)
(*                  Properties of SpecWait (wait_and_score)                *)
(***************************************************************************)
\* The states that decide the score, and the score each of them gives.
Decisive(inspection) ==
    inspection \in {"running_healthy", "running_unhealthy",
                    "running_no_health", "exited", "dead"}

DecidedScore(inspection) ==
    CASE inspection = "running_healthy" -> 100
      [] inspection = "running_unhealthy" -> 40
      [] inspection = "running_no_health" -> 85
      [] inspection = "exited" -> 0
      [] inspection = "dead" -> 0

\* The score of the first decisive state of a sequence of polls, or 0.
RECURSIVE FirstDecided(_, _)
FirstDecided(seen, i) ==
    IF i > Len(seen) THEN 0
    ELSE IF Decisive(seen[i]) THEN DecidedScore(seen[i])
    ELSE FirstDecided(seen, i + 1)

\* C18: wait_and_score returns the score of the first decisive state it
\* polled (RUNNING and HEALTHY 100, RUNNING and UNHEALTHY 40, RUNNING
\* without healthcheck 85, EXITED or DEAD 0), or 0 when none was polled
\* within the timeout, and it polls at most `timeout` times.
C18_ScoreOfPolledState ==
    /\ Len(wait.seen) <= wait.timeout
    /\ wait.result # None /\ unwrap(wait.result).ok =>
          unwrap(wait.result).score = FirstDecided(wait.seen, 1)

\* The scenario's run: api -> db, a failure injected into api, both seen
\* healthy, no policy and no baseline for the stack.
Scenario2 ==
    /\ call.compose = "two_tier"
    /\ call.inject_failure = Some("api")
    /\ ReturnedOk
    /\ run.healthy = {"api", "db"}
    /\ run.policyFile = None
    /\ run.baselineFile = None

Scenario2Scores ==
    LET summary == unwrap(run.summary)
    IN  /\ summary.service_scores =
              [n \in {"api", "db"} |-> IF n = "api" THEN 0 ELSE 100]
        /\ LastRecord.services = summary.service_scores
        /\ summary.confidence = 50
        /\ LastRecord.confidence = 50
        /\ summary.risk = "HIGH"
        /\ LastRecord.risk = "HIGH"

\* C19 as stated: the injected failure overrides api's score alone, giving
\* {api: 0, db: 100}, confidence 50, risk HIGH, and exit code 3.
C19_InjectedFailureExitsThree ==
    Scenario2 =>
       /\ Scenario2Scores
       /\ LastRecord.exit_code = 3
       /\ run.pc = "done" => outcome.exit = Some(3)

\* C19, amended: the same scores, confidence and risk, and exit code 2, the
\* code of the band 40..69 in which confidence 50 lies.
C19_InjectedFailureExitsTwo ==
    Scenario2 =>
       /\ Scenario2Scores
       /\ LastRecord.exit_code = 2
       /\ run.pc = "done" => outcome.exit = Some(2)

C19_Witness ==
    /\ Scenario2
    /\ run.pc = "done"
    /\ outcome.exit = Some(2)
    /\ history = <<EarlierRun, LastRecord>>

C21_DriftIsNotified ==
    /\ call.caller = "daemon"
    /\ run.pc = "done"
    /\ run.summary # None
    /\ unwrap(run.summary).baseline_drift
    => outcome.note = Some("BaselineDrift")

(***************************************************************************)
(*                 Properties of SpecDaemonLive (stale locks)              *)
(***************************************************************************)
\* The lock file of s was left by a holder that has died.
Stale(s) == lockFile[s].exists /\ lockFile[s].pid = DeadPid

\* A call is inside StackLock::acquire for s.
Acquiring(s) ==
    \E t \in Tasks :
       /\ tasks[t].stack = s
       /\ tasks[t].pc \in {"lock_create", "lock_read", "lock_remove",
                           "lock_recreate"}

\* What the read of an existing lock file leads to: a stale file is never
\* reported as held, and LockHeld is returned only for a living recorded
\* holder, with the file left as it was.
ReadOutcome(t) ==
    LET s == tasks[t].stack
    IN  tasks[t].pc = "lock_read" /\ tasks'[t].pc # "lock_read" =>
           /\ Stale(s) => tasks'[t].pc = "lock_remove"
           /\ tasks'[t].res = "lock_held" =>
                 /\ lockFile' = lockFile
                 /\ lockFile[s].pid \in {DaemonPid, CliPid}

\* The retry after the removal gets the lock when the path is free.
RetryOutcome(t) ==
    LET s == tasks[t].stack
    IN  tasks[t].pc = "lock_recreate" /\ tasks'[t].pc # "lock_recreate"
           /\ ~lockFile[s].exists =>
              /\ tasks'[t].pc = "lock_write"
              /\ lockFile'[s] = NewFile(t)

Enabled(flag) == flag = Some(TRUE)

\* The run that came before, if any.
PreviousRun == IF pol.history = <<>> THEN None
               ELSE Some(pol.history[Len(pol.history)])

\* The run took more than `percent` per cent longer than the previous one.
SpikedBeyond(percent) ==
    /\ PreviousRun # None
    /\ unwrap(PreviousRun).duration_seconds > 0
    /\ (pol.duration - unwrap(PreviousRun).duration_seconds) * 100
          >= (percent + 1) * unwrap(PreviousRun).duration_seconds

\* The condition of some enabled rule of policy p holds for the run.
SomeRuleHolds(p) ==
    LET confidence == Confidence(pol.service_scores)
    IN  \/ p.min_confidence # None /\ confidence < unwrap(p.min_confidence)
        \/ p.min_readiness # None /\ pol.readiness < unwrap(p.min_readiness)
        \/ /\ Enabled(p.block_on_regression)
           /\ PreviousRun # None
           /\ confidence < unwrap(PreviousRun).confidence
        \/ /\ Enabled(p.fail_on_new_service_failure)
           /\ \E n \in DOMAIN pol.service_scores : pol.service_scores[n] = 0
        \/ /\ Enabled(p.fail_on_duration_spike)
           /\ SpikedBeyond(IF p.duration_spike_percent = None THEN 50
                           ELSE unwrap(p.duration_spike_percent))
        \/ Enabled(p.fail_on_baseline_drift) /\ pol.drift

\* C23: policy_violated is true exactly when the stack has a policy and the
\* condition of at least one of its enabled rules holds; without a policy
\* file nothing is violated, and without a previous run, or with one of
\* duration 0, the regression and duration rules are not.
C23_PolicyRules ==
    pol.policy_violation # None =>
       unwrap(pol.policy_violation)
          = (pol.policyFile # None /\ SomeRuleHolds(unwrap(pol.policyFile)))

\* The duration rule alone is violated, at the default threshold of 50.
C23_Witness ==
    /\ pol.policy_violation = Some(TRUE)
    /\ pol.policyFile = Some([NoRules EXCEPT !.fail_on_duration_spike = Some(TRUE)])
    /\ pol.duration = 16
    /\ pol.history = <<EarlierRun>>

(***************************************************************************)
(*                  Properties of SpecDrift (drift symmetry)               *)
(***************************************************************************)
\* The comparison of the same baseline with the current run plus service n,
\* and with the current run less service n.
WithService(n) ==
    compare_to_baseline(cmp.baseline, Insert(cmp.services, n, 100),
                        100, 100, 10)

WithoutService(n) ==
    compare_to_baseline(cmp.baseline,
                        [k \in DOMAIN cmp.services \ {n} |-> cmp.services[k]],
                        100, 100, 10)

\* C24: new_services is the current keys less the expected services and
\* missing_services the expected services less the current keys; the two
\* are disjoint; a service added to the run appears in new_services, one
\* removed from it in missing_services (if the baseline does not, or does,
\* expect it); both are empty when the sets are equal.
C24_DriftSymmetry ==
    cmp.result # None =>
       LET drift == unwrap(cmp.result)
           current == DOMAIN cmp.services
           expected == cmp.baseline.expected_services
       IN  /\ drift.new_services = current \ expected
           /\ drift.missing_services = expected \ current
           /\ drift.new_services \cap drift.missing_services = {}
           /\ \A n \in ServiceNames \ (current \cup expected) :
                 n \in WithService(n).new_services
           /\ \A n \in current \cap expected :
                 n \in WithoutService(n).missing_services
           /\ current = expected =>
                 drift.new_services = {} /\ drift.missing_services = {}

\* A run with a service the baseline lacks and without one it expects.
C24_Witness ==
    /\ cmp.result # None
    /\ unwrap(cmp.result).new_services = {"web"}
    /\ unwrap(cmp.result).missing_services = {"db"}

(***************************************************************************)
(*          Properties of SpecBaseline (promote, save, delete)             *)
(***************************************************************************)
\* The most recent run of the history directory.
LatestRun ==
    IF FileName(SecondRun.timestamp) \in DOMAIN runsDir THEN SecondRun
    ELSE FirstRun

\* Baseline b carries the fields of run record r.
PinnedFrom(b, r) ==
    /\ Range(b.expected_services) = DOMAIN r.services
    /\ Len(b.expected_services) = Cardinality(DOMAIN r.services)
    /\ b.service_scores = r.services
    /\ b.expected_confidence = r.confidence
    /\ b.expected_readiness = r.readiness
    /\ b.expected_duration = r.duration_seconds
    /\ b.pinned_at = Some(r.timestamp)

NamesWith(timestamp) ==
    {n \in DOMAIN runsDir : Contains(n, ReplaceColons(timestamp))}

C26_BaselineHistoryAppendOnly ==
    /\ \A n \in DOMAIN bcall.histBefore :
          n \in DOMAIN baseHist /\ baseHist[n] = bcall.histBefore[n]
    /\ bcall.op = "delete" => baseHist = bcall.histBefore
    /\ bcall.op \in {"set", "promote"} /\ pinned # bcall.pinnedBefore =>
          Cardinality(DOMAIN baseHist)
             = Cardinality(DOMAIN bcall.histBefore) + 1
    /\ bcall.save = "err" => pinned = bcall.pinnedBefore

(***************************************************************************)
(*                        Properties of SpecFire                           *)
(***************************************************************************)
\* The greatest time of the schedule that is <= now, or None.
GreatestFire(expr, now) ==
    LET passed == {t \in ScheduleTimes(expr) : t <= now}
    IN  IF passed = {} THEN None ELSE Some(SetMax(passed))

\* C27: once a watch has been evaluated on a tick, the fire time compared
\* with the stored state is the greatest time of its schedule that is <= now,
\* for the hourly, daily, weekly and monthly schedule and every now; and
\* with catch_up = true and a stored entry older than that time exactly one
\* rehearsal has been dispatched and the entry has become that time.
C27_GreatestFireTime ==
    firing.pc # "due" =>
        LET in == firing.in
            g  == GreatestFire(in.expr, in.now)
        IN  /\ firing.last_fire = g
            /\ \A t \in g : \A p \in in.prev :
                 (in.catch_up /\ p < t) =>
                     firing.dispatched = 1 /\ firing.last_run = Some(t)

(***************************************************************************)
(*                       Properties of SpecPrepare                         *)
(***************************************************************************)
ImageOf(s) == unwrap(prep.in.services[s].image)

PullsOf(image) == {k \in DOMAIN prep.pulls : prep.pulls[k].image = image}

\* The service's turn in the image step is over.
Resolved(s) ==
    \/ s \in prep.created
    \/ prep.pc = "fatal" /\ prep.in.order[prep.i] = s
    \/ prep.pc = "create" /\ prep.in.order[prep.i] = s

\* C28: for every service, under Always its image has been pulled when its
\* container is created; under IfMissing a pull of its image is issued if
\* and only if the image was absent locally; under Never no pull of it is
\* issued and, if it was absent locally when the run started, the run has
\* failed with a fatal error rather than created the service's container.
C28_ImagePolicy ==
    \A s \in PrepServices :
        LET image == ImageOf(s)
            absent == image \notin prep.in.local
        IN  /\ (prep.in.pull_policy = "Always" /\ s \in prep.created) =>
                   \E k \in PullsOf(image) : prep.pulls[k].ok
            /\ (prep.in.pull_policy = "IfMissing" /\ Resolved(s)) =>
                   (PullsOf(image) # {} <=> absent)
            /\ prep.in.pull_policy = "Never" =>
                   /\ PullsOf(image) = {}
                   /\ absent => s \notin prep.created

\* The image reference carries no tag, or the tag latest: the tag is what
\* follows a ':' in the last component of the path ("h:5/a" has none).
LastSlash(image) ==
    IF HasChar(image, 47)
    THEN SetMax({i \in DOMAIN image : image[i] = 47}) ELSE 0

UnpinnedTag(image) ==
    \/ ~\E i \in DOMAIN image : i > LastSlash(image) /\ image[i] = 58
    \/ EndsWith(image, LatestSuffix)

\* What the run's inputs hold of each kind of risk.
MissingBindPaths ==
    {<<s, j>> \in PrepServices \X (1..2) :
        LET volumes == prep.in.services[s].volumes
        IN  /\ volumes # None /\ j \in DOMAIN unwrap(volumes)
            /\ LET parts == SplitOnce(unwrap(volumes)[j], 58)
               IN  /\ parts # None
                   /\ StartsWith(unwrap(parts)[1], 47)
                   /\ unwrap(parts)[1] \notin prep.in.paths}

UnpinnedImages == {s \in PrepServices : UnpinnedTag(ImageOf(s))}

FailedPulls ==
    {k \in DOMAIN prep.pulls :
        prep.pulls[k].by = "preflight" /\ ~prep.pulls[k].ok}

AbsentBareKeys ==
    {<<s, j>> \in PrepServices \X (1..2) :
        LET entries == prep.in.services[s].environment
        IN  /\ entries # None /\ j \in DOMAIN unwrap(entries)
            /\ ~HasChar(unwrap(entries)[j], 61)
            /\ Trim(unwrap(entries)[j]) \notin prep.in.environment}

MissingExternalNetworks ==
    {i \in DOMAIN prep.in.net.networks :
        /\ prep.in.net.networks[i].external
        /\ prep.in.net.listing # None
        /\ prep.in.net.networks[i].name \notin unwrap(prep.in.net.listing)}

PenaltySum ==
    25 * Cardinality(MissingBindPaths) + 5 * Cardinality(UnpinnedImages)
    + 30 * Cardinality(FailedPulls) + 20 * Cardinality(AbsentBareKeys)
    + 25 * Cardinality(MissingExternalNetworks)

RuleOrder ==
    <<"BindMountRule", "ImagePullRule", "EnvVarRule", "ExternalNetworkRule">>

RuleIndex(rule) == CHOOSE i \in DOMAIN RuleOrder : RuleOrder[i] = rule

\* C29: once preflight has scored, the readiness score is max(0, 100 - the
\* sum of the penalties), with 25 for each missing bind path, 5 for each
\* unpinned image tag, 30 for each failed pull, 20 for each bare env key
\* absent from the host environment, 25 for each missing external network
\* and 0 for every Info finding; the findings are in the order of the rules
\* BindMount, ImagePull, EnvVar, ExternalNetwork; and when the runtime
\* cannot list its networks there is no finding of the external-network rule.
C29_ReadinessScore ==
    prep.score # None =>
        /\ unwrap(prep.score) =
              IF PenaltySum > 100 THEN 0 ELSE 100 - PenaltySum
        /\ \A i, j \in DOMAIN prep.findings :
              i < j => RuleIndex(prep.findings[i].rule)
                           <= RuleIndex(prep.findings[j].rule)
        /\ \A i \in DOMAIN prep.findings :
              prep.findings[i].severity = "Info" =>
                  prep.findings[i].penalty = 0
        /\ prep.in.net.listing = None =>
              \A i \in DOMAIN prep.findings :
                  prep.findings[i].rule # "ExternalNetworkRule"

(***************************************************************************)
(*                        Properties of SpecNotify                         *)
(***************************************************************************)
\* C30: notify never leaves by an error, whatever the webhook and the email
\* delivery return and when no channel resolves: until it has returned it
\* has a step to take, and once it has returned every transport of the
\* resolved channel was attempted, the email also after a failed webhook.
C30_NotifyNeverRaises ==
    /\ ntf.pc # "raised"
    /\ ntf.pc # "returned" => ENABLED NextNotify
    /\ ntf.pc = "returned" =>
          IF ntf.channel = None
          THEN ntf.webhook = None /\ ntf.email = None
          ELSE /\ unwrap(ntf.channel).url # None => ntf.webhook # None
               /\ unwrap(ntf.channel).email # None => ntf.email # None

\* notify has returned on a channel with both transports after the webhook
\* delivery failed and the email delivery was attempted.
C30_Witness ==
    /\ ntf.pc = "returned"
    /\ ntf.channel # None
    /\ ntf.webhook = Some("curl error")
    /\ ntf.email \in {Some("Ok"), Some("SMTP delivery failed")}
    /\ ntf.email = Some("Ok") => Len(ntf.log) = 1

\* The channel of that name in the registry, or None.
ChannelNamed(name, reg) ==
    IF name # None /\ unwrap(name) \in DOMAIN reg.channels
    THEN Some(reg.channels[unwrap(name)]) ELSE None

\* C31: once notify has resolved its channel, the channel used is the
\* per-stack channel if one resolves, otherwise the global default channel
\* if one is set, otherwise none.
C31_ChannelResolution ==
    (ntf.pc # "resolve" /\ ntf.registry # None) =>
        LET reg == unwrap(ntf.registry)
        IN  ntf.channel =
              IF ChannelNamed(ntf.per_stack, reg) # None
              THEN ChannelNamed(ntf.per_stack, reg)
              ELSE ChannelNamed(reg.default_channel, reg)

(***************************************************************************)
(*                        Properties of SpecConfig                         *)
(***************************************************************************)
\* The limit a text of the environment variable stands for, if any: blanks
\* around it and a '+' before it are allowed.
EnvLimit(env) ==
    {n \in 1..(MaxLimit + 1) :
        env \in {Some(DecimalText(n)), Some(<<43>> \o DecimalText(n)),
                 Some(<<32>> \o DecimalText(n) \o <<32>>)}}

FileLimit(file) ==
    IF file.state \in {"absent", "unparsable"} THEN {}
    ELSE {n \in file.max_concurrent_rehearsals : n > 0}

\* C32: the limit resolved is at least 1: the value of the environment
\* variable when it parses to a positive integer, otherwise the config
\* file's max_concurrent_rehearsals when present and positive, otherwise 1;
\* and set_concurrency(0) is rejected and leaves the config file unchanged.
C32_ResolveConcurrency ==
    /\ conf.last = <<"resolve">> =>
          /\ unwrap(conf.resolved) >= 1
          /\ unwrap(conf.resolved) =
                IF EnvLimit(conf.env) # {} THEN unwrap(EnvLimit(conf.env))
                ELSE IF FileLimit(conf.file) # {}
                THEN unwrap(FileLimit(conf.file))
                ELSE 1
    /\ (conf.last[1] = "set" /\ conf.last[2] = 0) =>
          conf.last[3] = "Err" /\ conf.file = conf.last[4]

\* The limit was resolved from a config file holding 0 and an environment
\* variable that does not parse to a positive integer.
C32_Witness ==
    /\ conf.last = <<"resolve">>
    /\ conf.env \in {Some(<<48>>), Some(<<45, 49>>)}
    /\ conf.file = ConfigFile("config", Some(0))
    /\ conf.resolved = Some(1)

\* C33: with catch_up = false, no rehearsal is dispatched by a run of the
\* daemon for a fire time that had elapsed before that run started, also
\* for a watch that has no entry in the scheduler state.
C33_NoCatchUpNoElapsedSlot ==
    \A slot \in runLog.fired :
        ~catchUp[slot[1]] => slot[2] >= runLog.since

\* C34: the stack lock is held when a run comes to its scoring, and once it
\* has returned its summary, its regression and its stability are those of
\* the history as it was before its own record was written: the previous
\* run is not the run itself, and the first run of a stack has no previous
\* values, no deltas and no trends.
C34_RegressionAgainstEarlierHistory ==
    /\ run.pc = "score" => run.locked
    /\ run.summary # None =>
          LET summary == unwrap(run.summary)
              regression == unwrap(run.regression)
          IN  /\ history # <<>> /\ history[Len(history)].timestamp = "now"
              /\ regression =
                    analyze_regression(HistoryBefore, summary.confidence,
                                       summary.readiness, summary.duration)
              /\ run.stability = Some(calculate_stability(HistoryBefore, 5))
              /\ HistoryBefore = <<>> =>
                    /\ \A f \in DOMAIN regression : regression[f] = None
                    /\ run.stability = Some(100)
              /\ HistoryBefore # <<>> =>
                    regression.previous_confidence
                        = Some(HistoryBefore[Len(HistoryBefore)].confidence)

\* A run has returned with a lower confidence than the earlier run of the
\* stack, whose confidence alone makes the stability.
C34_Witness ==
    /\ run.summary # None
    /\ HistoryBefore = <<EarlierRun>>
    /\ unwrap(run.summary).confidence < 70
    /\ unwrap(run.regression).confidence_trend = Some("DOWN")
    /\ run.stability = Some(EarlierRun.confidence)

\* C35: a stack in which some depends_on entry names a service that the
\* stack does not define is rejected before the sandbox network or any
\* container is created, and the order of topological_sort holds only keys
\* of its input map.
C35_UndefinedDependencyRejected ==
    ~DepsAreKeys(call.compose) =>
        /\ ~docker.network
        /\ docker.containers = {}
        /\ run.created_containers = <<>>
        /\ Range(run.order) \subseteq DOMAIN DepMap(call.compose)
        /\ run.pc \notin {"returned", "score"}

\* C36: test_stack ends by returning Ok(summary) or Err for every parsed
\* stack, one with no services included: it never panics, and when it has
\* ended the lock it took is released.
C36_ReturnsAndReleases ==
    /\ run.pc # "panicked"
    /\ run.pc \in {"returned", "failed", "panicked", "done"} => ~run.locked

\* C37: for every `stack test` run that returned a summary, the exit_code
\* of the persisted RunRecord is the exit status the CLI process ends with,
\* whatever the policy violation, the baseline drift and the confidence.
C37_RecordedExitIsCliExit ==
    (ReturnedOk /\ call.caller = "cli" /\ run.pc = "done")
    => outcome.exit = Some(LastRecord.exit_code)

(***************************************************************************)
(*                       Properties of SpecWatcher                         *)
(***************************************************************************)
\* How many rehearsal tasks the last event spawned for stack s.
IntentsFor(s) ==
    Cardinality({i \in DOMAIN fw.spawned : fw.spawned[i] = s})

\* One of the event's paths is the compose_path that the registry, as read
\* for the event, holds for stack s.
NamesComposeFileOf(s) ==
    \E i \in DOMAIN fw.paths, j \in DOMAIN fw.read :
       fw.read[j].stack = s /\ fw.read[j].compose_path = fw.paths[i]

\* C40: a file-system event spawns a rehearsal for stack S if and only if
\* its kind is Modify or Create and one of its paths is the compose_path
\* registered for S in the registry as read at the event; other kinds and
\* other files of the watched directory spawn nothing, and one event for
\* S's file spawns exactly one rehearsal for S.
C40_FileWatchFilter ==
    fw.last = "event" =>
        \A s \in WatchStacks :
           IntentsFor(s) =
              IF fw.kind \in {"Modify", "Create"} /\ NamesComposeFileOf(s)
              THEN 1 ELSE 0

\* A Create event names another file of the directory and a's compose file,
\* b being registered with a file of its own: one rehearsal, for a.
C40_Witness ==
    /\ fw.last = "event"
    /\ fw.kind = "Create"
    /\ fw.paths = <<OtherFile, ComposeA>>
    /\ Len(fw.read) = Cardinality(WatchStacks)
    /\ fw.spawned = <<"a">>

====
